---- MODULE Spec2Model ----
(***************************************************************************)
(* Model of instaloader-api: the per-thread InstaService cache, the        *)
(* retry/backoff wrapper with proxy rotation, the service operations, the  *)
(* download routes and the deferred cleanup threads.                       *)
(*                                                                         *)
(* Conventions                                                             *)
(*   - names (user names, directory names, file names) are sequences of    *)
(*     string tokens, so that "{username}_{timestamp}" and                 *)
(*     "{username}.zip" are built by concatenation as in the code;         *)
(*   - durations are fixed-point integers, 10^-(RetryCap+1) s each;        *)
(*   - an exception is a record; library exceptions are untyped, the       *)
(*     classes of app/exceptions.py are typed and carry a status.          *)
(***************************************************************************)
EXTENDS Naturals, Integers, Sequences, FiniteSets, TLC

VARIABLES
    settings,     \* app.config.settings (read once at import, never changed)
    svc,          \* one InstaService: proxy cycle cursor and active proxy
    caller,       \* position of the code that calls the service in isolation
    last,         \* what the last isolated service call did
    lock,         \* InstaService._lock: owner thread or NoThread
    instances,    \* InstaService._instances: thread id -> instance id
    tpc,          \* per thread: position inside get_insta_service
    tgot,         \* per thread: instances returned to it so far
    built,        \* per thread id: number of InstaService objects constructed
    nextId,       \* allocation counter for InstaService objects
    dirs,         \* temporary directories that exist under DOWNLOAD_DIR
    files,        \* regular files that exist, as paths under DOWNLOAD_DIR
    cleaners,     \* deferred cleanup threads started by schedule_cleanup
    resp,         \* the response of the last request handled
    served,       \* number of requests handled so far
    data,         \* contents of the files written by a caller of the zip utilities
    returned,     \* directories create_temp_download_dir has returned, in order
    ncalls,       \* number of calls of the zip utilities made so far
    inflight      \* archive responses a handler returned that are not sent yet

vars == <<settings, svc, caller, last, lock, instances, tpc, tgot, built,
          nextId, dirs, files, cleaners, resp, served, data, returned, ncalls,
          inflight>>

svcVars == <<lock, instances, tpc, tgot, built, nextId>>
callVars == <<svc, caller, last>>
routeVars == <<dirs, files, cleaners, resp, served>>
zipVars == <<data, returned, ncalls>>

----------------------------------------------------------------------------
(* Bounds of the model *)

RetryCap == 3
PoolCap == 2
ThreadCap == 3
CallCap == 2
PostCap == 1
StampCap == 1
RequestCap == 1
UtilCap == 5

(* Program constants *)

CYCLE_REPEAT == 1000

----------------------------------------------------------------------------
(* app/config.py: Settings.  Numbers with a fraction are kept in tenths. *)

DefaultSettings ==
    [PROXIES |-> <<>>,
     PROXY_ROTATION |-> TRUE,
     PROXY_RETRY_MAX |-> 4,
     PROXY_BACKOFF_BASE |-> 15,
     PROXY_BACKOFF_JITTER |-> 5,
     AUTO_CLEANUP |-> TRUE]

(* The i-th distinct proxy URL of a configured pool. *)
ProxyPools == {[i \in 1..n |-> i] : n \in 0..PoolCap}

NoProxy == 0

----------------------------------------------------------------------------
(* Exceptions *)

NoExc == [typed |-> FALSE, cls |-> "", status |-> 0, message |-> <<>>, text |-> ""]

LibExc(cls, text) ==
    [typed |-> FALSE, cls |-> cls, status |-> 0, message |-> <<>>, text |-> text]

InstagramDownloaderError(cls, message, status_code) ==
    [typed |-> TRUE, cls |-> cls, status |-> status_code, message |-> message,
     text |-> ""]

UserNotFoundError_500(username) ==
    InstagramDownloaderError("UserNotFoundError",
        <<"Instagram user not found: '">> \o username \o <<"'">>, 500)

UserNotFoundError(username) ==
    InstagramDownloaderError("UserNotFoundError",
        <<"Instagram user not found: '">> \o username \o <<"'">>, 404)

PrivateProfileError_401(username) ==
    InstagramDownloaderError("PrivateProfileError",
        <<"'">> \o username \o
        <<"' profile is private. You need to log in to access this content.">>,
        401)

PrivateProfileError(username) ==
    InstagramDownloaderError("PrivateProfileError",
        <<"'">> \o username \o
        <<"' profile is private. You need to log in to access this content.">>,
        403)

ProfileSuspendedError(username) ==
    InstagramDownloaderError("ProfileSuspendedError",
        <<"'">> \o username \o <<"' account has been suspended or removed.">>,
        410)

RateLimitError ==
    InstagramDownloaderError("RateLimitError",
        <<"Instagram API rate limit exceeded. Please wait a while and try again.">>,
        429)

LoginRequiredError(operation) ==
    InstagramDownloaderError("LoginRequiredError",
        <<"You need to log in to Instagram for '", operation, "'.">>, 401)

DownloadError(message) ==
    InstagramDownloaderError("DownloadError", message, 500)

(* str(e) *)
StrOf(e) == IF e.typed THEN e.message ELSE <<e.text>>

(* instaloader.exceptions: what the library raises.  ConnectionException   *)
(* carries the upstream text; the other classes derive directly from       *)
(* InstaloaderException.                                                   *)
TextThrottle429 == "429 Too Many Requests"
TextThrottleWait == "Please wait a few minutes before you try again."
TextReset == "Connection reset by peer"

ProfileNotExistsException == LibExc("ProfileNotExistsException", "does not exist")
QueryReturnedBadRequestException == LibExc("QueryReturnedBadRequestException", "400 Bad Request")
PrivateProfileNotFollowedException == LibExc("PrivateProfileNotFollowedException", "private")
LoginRequiredException == LibExc("LoginRequiredException", "Login required")
ConnectionException(text) == LibExc("ConnectionException", text)

ConnectionExceptions ==
    {ConnectionException(t) : t \in {TextThrottle429, TextThrottleWait, TextReset}}

OtherLibExceptions ==
    {ProfileNotExistsException, QueryReturnedBadRequestException,
     PrivateProfileNotFollowedException, LoginRequiredException}

IsConnectionException_wide(e) ==
    e.cls \in {"ConnectionException", "QueryReturnedBadRequestException"}

(* except ConnectionException *)
IsConnectionException(e) == e.cls = "ConnectionException"

(* "429" in msg, "Please wait a few minutes" in msg *)
Has429(msg) == msg = TextThrottle429
HasPleaseWait(msg) == msg = TextThrottleWait

----------------------------------------------------------------------------
(* InstaService: proxy cycle *)

(* _build_proxy_cycle: iter(proxies * 1000), or None for an empty pool.    *)
(* The iterator is its list length and the number of items consumed.       *)
NoCycle == [len |-> 0, pos |-> 0, live |-> FALSE]

build_proxy_cycle(proxies) ==
    IF Len(proxies) = 0 THEN NoCycle
    ELSE [len |-> Len(proxies) * CYCLE_REPEAT, pos |-> 0, live |-> TRUE]

(* _apply_next_proxy: next(cycle) sets the session proxy; StopIteration    *)
(* leaves it as it is.                                                     *)
apply_next_proxy(sv) ==
    IF ~sv.cycle.live THEN sv
    ELSE IF sv.cycle.pos < sv.cycle.len
         THEN [sv EXCEPT !.cycle.pos = @ + 1,
                         !.proxy = settings.PROXIES[(sv.cycle.pos % Len(settings.PROXIES)) + 1]]
         ELSE sv

(* InstaService.__init__, proxy part *)
NewService ==
    LET sv == [cycle |-> build_proxy_cycle(settings.PROXIES), proxy |-> NoProxy]
    IN  IF sv.cycle.live THEN apply_next_proxy(sv) ELSE sv

----------------------------------------------------------------------------
(* InstaService._with_backoff *)

RECURSIVE Pow(_, _)
Pow(b, e) == IF e = 0 THEN 1 ELSE b * Pow(b, e - 1)

SleepFor_flat(attempt, drawn) ==
    Pow(settings.PROXY_BACKOFF_BASE, 1) * Pow(10, RetryCap)
        + drawn * Pow(10, RetryCap)

(* base ** attempt + random.uniform(0, jitter), in units of                *)
(* 10^-(RetryCap+1) seconds; base and the drawn jitter are in tenths.      *)
SleepFor(attempt, drawn) ==
    Pow(settings.PROXY_BACKOFF_BASE, attempt) * Pow(10, RetryCap + 1 - attempt)
        + drawn * Pow(10, RetryCap)

(* values random.uniform(0, jitter) may return, in tenths *)
JitterDraws == {0, settings.PROXY_BACKOFF_JITTER \div 2, settings.PROXY_BACKOFF_JITTER}

Returned(sv, log) == [raised |-> FALSE, exc |-> NoExc, svc |-> sv, log |-> log]
Raised(e, sv, log) == [raised |-> TRUE, exc |-> e, svc |-> sv, log |-> log]

EvCall(attempt, proxy) == [ev |-> "call", attempt |-> attempt, proxy |-> proxy, dur |-> 0]
EvSleep(attempt, dur) == [ev |-> "sleep", attempt |-> attempt, proxy |-> NoProxy, dur |-> dur]

(* "429" in msg or "Please wait a few minutes" in msg *)
IsThrottle(msg) == Has429(msg) \/ HasPleaseWait(msg)

IsLastAttempt_early(attempt) == attempt + 1 = settings.PROXY_RETRY_MAX

(* if attempt == attempts *)
IsLastAttempt(attempt) == attempt = settings.PROXY_RETRY_MAX

(* script[attempt] = what func does when it is called the attempt-th time  *)
(* and the jitter drawn after it.                                          *)
RECURSIVE BackoffLoop(_, _, _, _)
BackoffLoop(attempt, script, sv, log) ==
    IF attempt > settings.PROXY_RETRY_MAX
    THEN Raised(DownloadError(<<"Unable to complete request after retries">>), sv, log)
    ELSE
      LET e == script[attempt].exc
          log1 == Append(log, EvCall(attempt, sv.proxy))
          log2 == Append(log1, EvSleep(attempt, SleepFor(attempt, script[attempt].jit)))
          sv2 == IF settings.PROXY_ROTATION THEN apply_next_proxy(sv) ELSE sv
      IN  IF e = NoExc THEN Returned(sv, log1)
          ELSE IF IsConnectionException(e)
          THEN IF IsThrottle(e.text)
               THEN IF IsLastAttempt(attempt)
                    THEN Raised(RateLimitError, sv, log1)
                    ELSE BackoffLoop(attempt + 1, script, sv2, log2)
               ELSE IF IsLastAttempt(attempt)
                    THEN Raised(DownloadError(<<"Connection error: ", e.text>>), sv, log1)
                    ELSE BackoffLoop(attempt + 1, script, sv2, log2)
          ELSE Raised(e, sv, log1)

with_backoff(script, sv) == BackoffLoop(1, script, sv, <<>>)

(* The behaviours of a wrapped library call over the attempts made: every  *)
(* attempt but the last fails with a ConnectionException, the last one     *)
(* does anything.                                                          *)
Retryable == {[exc |-> e, jit |-> j] : e \in ConnectionExceptions, j \in JitterDraws}
Final(excs) == {[exc |-> e, jit |-> 0] : e \in excs}

RECURSIVE ScriptsOfLen(_, _)
ScriptsOfLen(n, finals) ==
    IF n = 0 THEN {<<>>}
    ELSE IF n = 1 THEN {<<f>> : f \in Final(finals)}
    ELSE {<<r>> \o s : r \in Retryable, s \in ScriptsOfLen(n - 1, finals)}

Scripts(finalExcs) ==
    IF settings.PROXY_RETRY_MAX <= 0 THEN {<<>>}
    ELSE UNION {ScriptsOfLen(n, IF n = settings.PROXY_RETRY_MAX
                                   THEN finalExcs \cup ConnectionExceptions
                                   ELSE finalExcs)
                : n \in 1..settings.PROXY_RETRY_MAX}

AnyOutcome == {NoExc} \cup OtherLibExceptions

----------------------------------------------------------------------------
(* InstaService.get_profile *)

Usernames == {<<"alice">>, <<"bob">>}

(* the one value of a set of one element: TheOne({e : x \in {v}}) is e    *)
(* with x naming the value of v                                            *)
TheOne(S) == CHOOSE x \in S : TRUE

get_profile(username, script, sv) ==
    TheOne({IF ~r.raised THEN r
            ELSE IF r.exc = ProfileNotExistsException
                 THEN Raised(UserNotFoundError(username), r.svc, r.log)
            ELSE IF r.exc = QueryReturnedBadRequestException
                 THEN Raised(ProfileSuspendedError(username), r.svc, r.log)
            ELSE IF IsConnectionException(r.exc)
                 THEN IF IsThrottle(r.exc.text)
                      THEN Raised(RateLimitError, r.svc, r.log)
                      ELSE Raised(DownloadError(<<"Connection error: ", r.exc.text>>),
                                  r.svc, r.log)
            ELSE r
            : r \in {with_backoff(script, sv)}})

----------------------------------------------------------------------------
(* The file system under settings.DOWNLOAD_DIR.  A path is a sequence of   *)
(* names below DOWNLOAD_DIR; a temporary directory is known by its name.   *)

NoDir == <<>>
NoPath == <<>>
DOWNLOAD_DIR == <<>>

FsNow == [dirs |-> dirs, files |-> files]

Under(directory, path) == Len(path) > 1 /\ path[1] = directory

(* Path.mkdir(parents=True, exist_ok=True) *)
mkdir(fs, path) ==
    IF Len(path) = 0 THEN fs ELSE [fs EXCEPT !.dirs = @ \cup {path[1]}]

write_file(fs, path) == [fs EXCEPT !.files = @ \cup {path}]

(* zip_utils.create_temp_download_dir; stamp is                            *)
(* datetime.now().strftime("%Y%m%d_%H%M%S_%f")                             *)
TempDirName(username, stamp) == username \o <<"_", stamp>>

create_temp_download_dir(fs, username, stamp) ==
    mkdir(fs, <<TempDirName(username, stamp)>>)

cleanup_directory_keep(fs, directory) == fs

exists_always(fs, directory) == TRUE

(* Path.exists() of a directory under DOWNLOAD_DIR *)
exists(fs, directory) == directory \in fs.dirs

(* shutil.rmtree(directory): the directory and everything under it goes;   *)
(* FileNotFoundError when there is no such directory                       *)
rmtree(fs, directory) ==
    IF directory \in fs.dirs
    THEN [raised |-> FALSE,
          fs |-> [dirs |-> fs.dirs \ {directory},
                  files |-> {f \in fs.files : ~Under(directory, f)}]]
    ELSE [raised |-> TRUE, fs |-> fs]

(* zip_utils.cleanup_directory: whether it raised, and the file system it  *)
(* leaves                                                                  *)
cleanup_directory_call(fs, directory) ==
    IF exists(fs, directory) THEN rmtree(fs, directory)
    ELSE [raised |-> FALSE, fs |-> fs]

(* zip_utils.cleanup_directory, as its callers in the routes use it        *)
cleanup_directory(fs, directory) == cleanup_directory_call(fs, directory).fs

(* zip_utils.create_zip_archive: the path of the archive it writes *)
ZipPath(zip_name, output_dir) == output_dir \o <<zip_name \o <<".zip">>>>

create_zip_archive(fs, source_dir, zip_name, output_dir) ==
    write_file(mkdir(fs, output_dir), ZipPath(zip_name, output_dir))

----------------------------------------------------------------------------
(* What the library does during one request *)

NoMax == 0

OkScript ==
    IF settings.PROXY_RETRY_MAX >= 1 THEN <<[exc |-> NoExc, jit |-> 0]>> ELSE <<>>

ScriptOk(script) == Len(script) >= 1 /\ script[Len(script)].exc = NoExc

(* per post: "ok" media and metadata obtained; "nomedia" the library's     *)
(* download_post raised; "error" the post's own data could not be read     *)
PostKinds == {"ok", "nomedia", "error"}
PostSeqs == UNION {[1..n -> PostKinds] : n \in 0..PostCap}

(* raised while the posts of a profile are listed *)
IterExcs == {PrivateProfileNotFollowedException, LoginRequiredException}
                \cup ConnectionExceptions

(* profile picture: direct fetch works; only the library fallback works;   *)
(* the fallback leaves no picture file; both raise                         *)
PicOutcomes == {"direct", "fallback", "nofile", "fail"}

BaseWorld ==
    [profile |-> OkScript, is_private |-> FALSE, pic |-> "direct",
     iter_exc |-> NoExc, posts |-> <<>>, post |-> OkScript,
     owner_private |-> FALSE, sidecar |-> FALSE, media |-> 1]

ProfileWorlds == {[BaseWorld EXCEPT !.profile = sc] : sc \in Scripts(AnyOutcome)}
ProfileOk == {w \in ProfileWorlds : ScriptOk(w.profile)}
ProfileFails == ProfileWorlds \ ProfileOk

PostsAfterProfile(ws) ==
    {[w EXCEPT !.is_private = TRUE] : w \in ws}
        \cup {[w EXCEPT !.iter_exc = e] : w \in ws, e \in IterExcs}
        \cup {[w EXCEPT !.posts = ps] : w \in ws, ps \in PostSeqs}

PostsWorlds == ProfileFails \cup PostsAfterProfile(ProfileOk)
PicWorlds == ProfileFails \cup {[w EXCEPT !.pic = k] : w \in ProfileOk, k \in PicOutcomes}
AllWorlds ==
    ProfileFails
        \cup PostsAfterProfile({[w EXCEPT !.pic = k] : w \in ProfileOk, k \in PicOutcomes})

PostWorlds ==
    {[BaseWorld EXCEPT !.post = sc] : sc \in {x \in Scripts(AnyOutcome) : ~ScriptOk(x)}}
        \cup {[BaseWorld EXCEPT !.post = sc, !.owner_private = TRUE] :
                 sc \in {x \in Scripts(AnyOutcome) : ScriptOk(x)}}
        \cup {[BaseWorld EXCEPT !.post = sc, !.sidecar = sd, !.media = m] :
                 sc \in {x \in Scripts(AnyOutcome) : ScriptOk(x)},
                 sd \in BOOLEAN, m \in 0..2}

----------------------------------------------------------------------------
(* InstaService operations.  Each returns what it raised or returned, the  *)
(* service and the file system after it.                                   *)

SRet(value, sv, fs) == [raised |-> FALSE, exc |-> NoExc, value |-> value, svc |-> sv, fs |-> fs]
SRaise(e, sv, fs) == [raised |-> TRUE, exc |-> e, value |-> <<>>, svc |-> sv, fs |-> fs]

(* except PrivateProfileNotFollowedException / except ConnectionException  *)
(* around the listing in list_posts and download_posts                     *)
ListingExc(e, username) ==
    IF e = PrivateProfileNotFollowedException THEN PrivateProfileError(username)
    ELSE IF IsConnectionException(e)
         THEN IF Has429(e.text) THEN RateLimitError
              ELSE DownloadError(<<"Connection error: ", e.text>>)
    ELSE e

PostFolder(i) == <<"post", ToString(i)>>
MediaFile(k) == <<"media", ToString(k), ".jpg">>
MetadataFile == <<"metadata.txt">>

(* _download_single_post on the i-th post, which is readable *)
download_single_post(fs, target_dir, i, kind, include_metadata) ==
    LET post_folder == target_dir \o <<PostFolder(i)>>
        fs1 == mkdir(fs, post_folder)
        fs2 == IF kind = "ok" THEN write_file(fs1, post_folder \o <<MediaFile(1)>>) ELSE fs1
    IN  IF include_metadata THEN write_file(fs2, post_folder \o <<MetadataFile>>) ELSE fs2

(* the for loop of download_posts *)
RECURSIVE DownloadLoop(_, _, _, _, _, _, _, _)
DownloadLoop(posts, i, count, max_posts, include_metadata, target_dir, acc, fs) ==
    IF i > Len(posts) \/ (max_posts # NoMax /\ count >= max_posts)
    THEN [list |-> acc, fs |-> fs]
    ELSE IF posts[i] = "error"
         THEN DownloadLoop(posts, i + 1, count, max_posts, include_metadata, target_dir, acc, fs)
         ELSE DownloadLoop(posts, i + 1, count + 1, max_posts, include_metadata, target_dir,
                           Append(acc, i),
                           download_single_post(fs, target_dir, i, posts[i], include_metadata))

(* the for loop of list_posts *)
RECURSIVE ListLoop(_, _, _, _, _)
ListLoop(posts, i, count, max_posts, acc) ==
    IF i > Len(posts) \/ count >= max_posts THEN acc
    ELSE IF posts[i] = "error"
         THEN ListLoop(posts, i + 1, count, max_posts, acc)
         ELSE ListLoop(posts, i + 1, count + 1, max_posts, Append(acc, i))

(* PostListResponse(username=..., total_posts=profile.mediacount,           *)
(* returned_posts=len(posts_list), posts=posts_list); the posts are named   *)
(* by their place in what the profile yields                                *)
PostListResponse_of_total(username, total_posts, posts_list) ==
    [username |-> username, total_posts |-> total_posts,
     returned_posts |-> total_posts, posts |-> posts_list]

PostListResponse(username, total_posts, posts_list) ==
    [username |-> username, total_posts |-> total_posts,
     returned_posts |-> Len(posts_list), posts |-> posts_list]

svc_list_posts(username, max_posts, lib, sv, fs) ==
    TheOne({IF p.raised THEN SRaise(p.exc, p.svc, fs)
            ELSE IF lib.is_private THEN SRaise(PrivateProfileError(username), p.svc, fs)
            ELSE TheOne({IF g.raised THEN SRaise(ListingExc(g.exc, username), g.svc, fs)
                         ELSE IF lib.iter_exc # NoExc
                              THEN SRaise(ListingExc(lib.iter_exc, username), g.svc, fs)
                         ELSE SRet(PostListResponse(
                                       username, Len(lib.posts),
                                       ListLoop(lib.posts, 1, 0, max_posts, <<>>)),
                                   g.svc, fs)
                         : g \in {with_backoff(OkScript, p.svc)}})
            : p \in {get_profile(username, lib.profile, sv)}})

ProfilePicFile == <<"profile_pic", ".jpg">>

svc_download_profile_pic(username, target_dir, lib, sv, fs) ==
    LET fs1 == mkdir(fs, target_dir)
        dest == target_dir \o <<ProfilePicFile>>
    IN  TheOne({IF p.raised THEN SRaise(p.exc, p.svc, fs)
                ELSE IF lib.pic \in {"direct", "fallback"}
                     THEN SRet(dest, p.svc, write_file(fs1, dest))
                ELSE SRet(NoPath, p.svc, fs1)
                : p \in {get_profile(username, lib.profile, sv)}})

svc_download_posts(username, target_dir, max_posts, include_metadata, lib, sv, fs) ==
    LET fs1 == mkdir(fs, target_dir)
    IN  TheOne({IF p.raised THEN SRaise(p.exc, p.svc, fs)
                ELSE IF lib.is_private THEN SRaise(PrivateProfileError(username), p.svc, fs)
                ELSE TheOne({IF g.raised THEN SRaise(ListingExc(g.exc, username), g.svc, fs1)
                             ELSE IF lib.iter_exc # NoExc
                                  THEN SRaise(ListingExc(lib.iter_exc, username), g.svc, fs1)
                             ELSE TheOne({SRet(done.list, g.svc, done.fs)
                                          : done \in {DownloadLoop(lib.posts, 1, 0, max_posts,
                                                                   include_metadata, target_dir,
                                                                   <<>>, fs1)}})
                             : g \in {with_backoff(OkScript, p.svc)}})
                : p \in {get_profile(username, lib.profile, sv)}})

AllStats(pic, posts) ==
    LET e1 == IF pic.raised THEN <<<<"Profile picture: ">> \o StrOf(pic.exc)>> ELSE <<>>
        e2 == IF ~posts.raised THEN <<>>
              ELSE IF posts.exc.cls = "PrivateProfileError"
                   THEN <<<<"Posts: Profile is private">>>>
                   ELSE <<<<"Posts: ">> \o StrOf(posts.exc)>>
    IN  SRet([posts |-> IF posts.raised THEN 0 ELSE Len(posts.value),
              profile_pic |-> ~pic.raised /\ pic.value # NoPath,
              errors |-> e1 \o e2],
             posts.svc, posts.fs)

(* download_all of the service: the picture, then the posts with the       *)
(* service and file system the picture step left                           *)
svc_download_all(username, target_dir, max_posts, include_metadata, lib, sv, fs) ==
    TheOne({TheOne({AllStats(pic, posts)
                    : posts \in {svc_download_posts(username, target_dir \o <<<<"posts">>>>,
                                                    max_posts, include_metadata, lib,
                                                    pic.svc, pic.fs)}})
            : pic \in {svc_download_profile_pic(username, target_dir, lib, sv, fs)}})

(* _extract_shortcode.  A str is a sequence of characters, each written   *)
(* as a string of length one; the four letters outside ASCII that          *)
(* re.IGNORECASE folds to an ASCII letter are written by code point.       *)
AsciiLower == <<"a", "b", "c", "d", "e", "f", "g", "h", "i", "j", "k", "l",
    "m", "n", "o", "p", "q", "r", "s", "t", "u", "v", "w", "x", "y", "z">>
AsciiUpper == <<"A", "B", "C", "D", "E", "F", "G", "H", "I", "J", "K", "L",
    "M", "N", "O", "P", "Q", "R", "S", "T", "U", "V", "W", "X", "Y", "Z">>
Digits == <<"0", "1", "2", "3", "4", "5", "6", "7", "8", "9">>
FoldedToI == {"U+0130", "U+0131"}
FoldedToS == {"U+017F"}
FoldedToK == {"U+212A"}

Chars(f) == {f[i] : i \in DOMAIN f}

(* str.lower on the ASCII capitals *)
LowerOf ==
    [c \in Chars(AsciiUpper) |->
        AsciiLower[CHOOSE i \in DOMAIN AsciiUpper : AsciiUpper[i] = c]]

(* the case folding re.IGNORECASE compares characters under *)
lower(c) ==
    IF c \in DOMAIN LowerOf THEN LowerOf[c]
    ELSE IF c \in FoldedToI THEN "i"
    ELSE IF c \in FoldedToS THEN "s"
    ELSE IF c \in FoldedToK THEN "k"
    ELSE c

MinLength == 5

(* [A-Za-z0-9_-] as re.fullmatch applies it, without flags *)
ClassChars == Chars(AsciiLower) \cup Chars(AsciiUpper) \cup Chars(Digits) \cup {"_", "-"}
InClass(c) == c \in ClassChars

(* [A-Za-z0-9_-] inside shortcode_pattern, compiled with re.IGNORECASE *)
InClassIgnoreCase(c) == InClass(c) \/ InClass(lower(c))

(* a literal of shortcode_pattern matches at position i, ignoring case *)
MatchesAt(s, i, literal) ==
    /\ i + Len(literal) - 1 <= Len(s)
    /\ \A k \in 1..Len(literal) : lower(s[i + k - 1]) = literal[k]

DomainLiteral == <<"i", "n", "s", "t", "a", "g", "r", "a", "m", ".", "c",
    "o", "m", "/">>
KindLiterals == {<<"p", "/">>, <<"r", "e", "e", "l", "/">>, <<"t", "v", "/">>}
SlashLiteral == <<"/">>
StoriesLiteral == <<"/", "s", "t", "o", "r", "i", "e", "s", "/">>

(* the positions right after the non-capturing group of shortcode_pattern  *)
(* when it matches at position i:                                          *)
(* instagram\.com/(?:p|reel|tv)/ | /p/ | /reel/ | /tv/ | /stories/[^/]+/   *)
PrefixEnds(s, i) ==
    {i + Len(DomainLiteral) + Len(k) :
        k \in {k \in KindLiterals : MatchesAt(s, i, DomainLiteral \o k)}}
    \cup {i + Len(SlashLiteral) + Len(k) :
        k \in {k \in KindLiterals : MatchesAt(s, i, SlashLiteral \o k)}}
    \cup {j + 1 :
        j \in {j \in (i + Len(StoriesLiteral) + 1)..Len(s) :
                /\ MatchesAt(s, i, StoriesLiteral)
                /\ s[j] = "/"
                /\ \A m \in (i + Len(StoriesLiteral))..(j - 1) : s[m] # "/"}}

(* the greedy run of the capturing group from position i on *)
RECURSIVE CodeRun(_, _)
CodeRun(identifier, i) ==
    IF i > Len(identifier) \/ ~InClassIgnoreCase(identifier[i]) THEN <<>>
    ELSE <<identifier[i]>> \o CodeRun(identifier, i + 1)

(* shortcode_pattern.search: the leftmost position with a match *)
search(identifier) ==
    LET hits == {i \in 1..Len(identifier) :
                    \E e \in PrefixEnds(identifier, i) :
                        Len(CodeRun(identifier, e)) >= MinLength}
    IN  IF hits = {} THEN [matched |-> FALSE, group |-> <<>>]
        ELSE TheOne({TheOne({[matched |-> TRUE, group |-> CodeRun(identifier, e)] :
                                e \in {e \in PrefixEnds(identifier, first) :
                                          Len(CodeRun(identifier, e)) >= MinLength}})
                     : first \in {i \in hits : \A j \in hits : i <= j}})

fullmatch(identifier) ==
    /\ Len(identifier) >= MinLength
    /\ \A i \in 1..Len(identifier) : InClass(identifier[i])

extract_shortcode(identifier) ==
    TheOne({IF match.matched THEN [ok |-> TRUE, shortcode |-> match.group]
            ELSE IF fullmatch(identifier) THEN [ok |-> TRUE, shortcode |-> identifier]
            ELSE [ok |-> FALSE, shortcode |-> <<>>]
            : match \in {search(identifier)}})

(* except clauses around Post.from_shortcode in download_post_by_url *)
PostLookupExc(e) ==
    IF e = PrivateProfileNotFollowedException THEN PrivateProfileError(<<"This profile">>)
    ELSE IF e = ProfileNotExistsException
         THEN DownloadError(<<"Post not found or unreachable.">>)
    ELSE IF IsConnectionException(e)
         THEN IF IsThrottle(e.text) THEN RateLimitError
              ELSE DownloadError(<<"Connection error: ", e.text>>)
    ELSE e

OwnerOfPost == <<"owner">>

MEDIA_EXTENSIONS == {".jpg", ".jpeg", ".png", ".webp", ".mp4"}

(* _collect_media_files: the files right inside post_folder whose suffix   *)
(* is one of MEDIA_EXTENSIONS                                              *)
collect_media_files(fs, post_folder) ==
    {f \in fs.files :
        /\ Len(f) = Len(post_folder) + 1
        /\ SubSeq(f, 1, Len(post_folder)) = post_folder
        /\ f[Len(f)][Len(f[Len(f)])] \in MEDIA_EXTENSIONS}

svc_download_post_by_url(url_or_shortcode, target_dir, include_metadata, lib, sv, fs) ==
    TheOne({
        LET post_folder == target_dir \o <<<<"2024-01-15-">> \o sc.shortcode>>
            fs1 == mkdir(fs, post_folder)
            fs2 == [fs1 EXCEPT !.files = @ \cup {post_folder \o <<MediaFile(k)>> :
                                                    k \in 1..lib.media}]
            media_files == collect_media_files(fs2, post_folder)
            fs3 == IF include_metadata THEN write_file(fs2, post_folder \o <<MetadataFile>>)
                   ELSE fs2
        IN  IF ~sc.ok
            THEN SRaise(DownloadError(<<"Provide a valid Instagram link or shortcode.">>), sv, fs)
            ELSE TheOne({IF r.raised THEN SRaise(PostLookupExc(r.exc), r.svc, fs)
                         ELSE IF lib.owner_private
                              THEN SRaise(PrivateProfileError(OwnerOfPost), r.svc, fs)
                         ELSE SRet([shortcode |-> sc.shortcode, media_files |-> media_files,
                                    post_folder |-> post_folder, is_sidecar |-> lib.sidecar,
                                    mediacount |-> IF lib.sidecar THEN 2 ELSE 1],
                                   r.svc, fs3)
                         : r \in {with_backoff(lib.post, sv)}})
        : sc \in {extract_shortcode(url_or_shortcode)}})

----------------------------------------------------------------------------
(* The service called in isolation: one call at a time on one instance.    *)

Idle == [op |-> "none", username |-> <<>>, script |-> <<>>, raised |-> FALSE,
         exc |-> NoExc, log |-> <<>>, before |-> NoProxy]

CallWithBackoff ==
    /\ caller = "idle"
    /\ \E script \in Scripts(AnyOutcome) :
         LET r == with_backoff(script, svc)
         IN  /\ svc' = r.svc
             /\ last' = [op |-> "with_backoff", username |-> <<>>, script |-> script,
                         raised |-> r.raised, exc |-> r.exc, log |-> r.log,
                         before |-> svc.proxy]
    /\ caller' = "done"
    /\ UNCHANGED <<settings, inflight, zipVars, svcVars, routeVars>>

CallGetProfile ==
    /\ caller = "idle"
    /\ \E username \in Usernames, script \in Scripts(AnyOutcome) :
         LET r == get_profile(username, script, svc)
         IN  /\ svc' = r.svc
             /\ last' = [op |-> "get_profile", username |-> username, script |-> script,
                         raised |-> r.raised, exc |-> r.exc, log |-> r.log,
                         before |-> svc.proxy]
    /\ caller' = "done"
    /\ UNCHANGED <<settings, inflight, zipVars, svcVars, routeVars>>

(* the caller takes the result or the exception and goes on *)
CallReturns ==
    /\ caller = "done"
    /\ caller' = "idle"
    /\ last' = Idle
    /\ UNCHANGED <<settings, inflight, zipVars, svc, svcVars, routeVars>>

----------------------------------------------------------------------------
(* get_insta_service, step by step, called by several threads *)

Threads == 1..ThreadCap
NoThread == 0
NoInstance == 0

thread_id_shared(ident) == -1

(* thread_id = thread_ident if thread_ident is not None else -1; a running *)
(* thread always has an ident.                                             *)
thread_id(ident) == IF ident = NoThread THEN -1 ELSE ident

ThreadIds == {thread_id(t) : t \in Threads \cup {NoThread}}

(* with InstaService._lock: *)
LockAcquire(t) ==
    /\ tpc[t] = "call"
    /\ Len(tgot[t]) < CallCap
    /\ lock = NoThread
    /\ lock' = t
    /\ tpc' = [tpc EXCEPT ![t] = "check"]
    /\ UNCHANGED <<settings, inflight, zipVars, callVars, routeVars, instances, tgot, built, nextId>>

(* if thread_id not in InstaService._instances *)
CheckInstance(t) ==
    /\ tpc[t] = "check"
    /\ tpc' = [tpc EXCEPT ![t] =
                 IF instances[thread_id(t)] = NoInstance THEN "construct" ELSE "return"]
    /\ UNCHANGED <<settings, inflight, zipVars, callVars, routeVars, lock, instances, tgot, built, nextId>>

(* InstaService._instances[thread_id] = InstaService() *)
ConstructInstance(t) ==
    /\ tpc[t] = "construct"
    /\ instances' = [instances EXCEPT ![thread_id(t)] = nextId]
    /\ built' = [built EXCEPT ![thread_id(t)] = @ + 1]
    /\ nextId' = nextId + 1
    /\ tpc' = [tpc EXCEPT ![t] = "return"]
    /\ UNCHANGED <<settings, inflight, zipVars, callVars, routeVars, lock, tgot>>

(* InstaService() raises: the with block releases the lock and the         *)
(* exception leaves get_insta_service; nothing is stored.                  *)
ConstructFails(t) ==
    /\ tpc[t] = "construct"
    /\ lock' = NoThread
    /\ tpc' = [tpc EXCEPT ![t] = "failed"]
    /\ UNCHANGED <<settings, inflight, zipVars, callVars, routeVars, instances, tgot, built, nextId>>

(* return InstaService._instances[thread_id] *)
ReturnInstance(t) ==
    /\ tpc[t] = "return"
    /\ tgot' = [tgot EXCEPT ![t] = Append(@, instances[thread_id(t)])]
    /\ lock' = NoThread
    /\ tpc' = [tpc EXCEPT ![t] = "call"]
    /\ UNCHANGED <<settings, inflight, zipVars, callVars, routeVars, instances, built, nextId>>

(* the thread's next request calls get_insta_service again *)
RetryAfterFailure(t) ==
    /\ tpc[t] = "failed"
    /\ tpc' = [tpc EXCEPT ![t] = "call"]
    /\ UNCHANGED <<settings, inflight, zipVars, callVars, routeVars, lock, instances, tgot, built, nextId>>

----------------------------------------------------------------------------
(* routes/download.py.  The handlers are coroutines without an await, so   *)
(* each runs to completion on the event loop thread; the cleanup threads   *)
(* started by schedule_cleanup run beside them.                            *)

LoopThread == 1
Stamps == {ToString(i) : i \in 1..StampCap}
Identifiers == {<<"/", "p", "/", "A", "b", "7", "_", "-">>, <<"A", "b", "7", "_", "-">>, <<"A", "b", "?">>}

(* fastapi.HTTPException(status_code, detail), what every route raises     *)
HTTPException(status_code, detail) ==
    [typed |-> FALSE, cls |-> "HTTPException", status |-> status_code,
     message |-> detail, text |-> ""]

(* main.py: error_codes.get(exc.status_code, "UNKNOWN_ERROR") *)
ErrorCodeOf(status_code) ==
    CASE status_code = 404 -> "USER_NOT_FOUND"
      [] status_code = 403 -> "PRIVATE_PROFILE"
      [] status_code = 429 -> "RATE_LIMITED"
      [] status_code = 410 -> "PROFILE_SUSPENDED"
      [] status_code = 500 -> "DOWNLOAD_ERROR"
      [] status_code = 504 -> "TIMEOUT"
      [] OTHER -> "UNKNOWN_ERROR"

EnvelopeKeys == {"success", "error", "error_code", "timestamp"}
UnexpectedErrorMessage == <<"An unexpected error occurred.">>

(* The JSON body of a response: its keys and the values of the text keys.  *)
NoContent == [keys |-> {}, error |-> <<>>, error_code |-> "", detail |-> <<>>]

(* main.py: @app.exception_handler(InstagramDownloaderError) *)
instagram_exception_handler(exc) ==
    [status |-> exc.status,
     content |-> [NoContent EXCEPT !.keys = EnvelopeKeys, !.error = exc.message,
                                   !.error_code = ErrorCodeOf(exc.status)]]

(* main.py: @app.exception_handler(Exception) *)
general_exception_handler(exc) ==
    [status |-> 500,
     content |-> [NoContent EXCEPT !.keys = EnvelopeKeys, !.error = UnexpectedErrorMessage,
                                   !.error_code = "INTERNAL_ERROR"]]

(* FastAPI's built-in handler of HTTPException: {"detail": exc.detail}     *)
http_exception_handler(exc) ==
    [status |-> exc.status,
     content |-> [NoContent EXCEPT !.keys = {"detail"}, !.detail = exc.message]]

(* The handler the application runs for an exception that leaves a route:  *)
(* the one registered for the most specific class of the exception.       *)
ExceptionResponse(exc) ==
    IF exc.cls = "HTTPException" THEN http_exception_handler(exc)
    ELSE IF exc.typed THEN instagram_exception_handler(exc)
    ELSE general_exception_handler(exc)

(* except InstagramDownloaderError / except Exception of a route: delete   *)
(* the temporary directory, raise HTTPException                            *)
RouteError(e, temp_dir, sv, fs) ==
    [status |-> IF e.typed THEN e.status ELSE 500, detail |-> StrOf(e), exc |-> e,
     body |-> "error", temp_dir |-> temp_dir, path |-> NoPath, svc |-> sv,
     fs |-> IF temp_dir # NoDir THEN cleanup_directory(fs, temp_dir) ELSE fs,
     arm |-> FALSE]

(* nothing to send: cleanup_directory(temp_dir); raise HTTPException(404)  *)
RouteEmpty(detail, temp_dir, sv, fs) ==
    [status |-> 404, detail |-> <<detail>>, exc |-> NoExc, body |-> "error",
     temp_dir |-> temp_dir, path |-> NoPath, svc |-> sv,
     fs |-> cleanup_directory(fs, temp_dir), arm |-> FALSE]

RouteOk(body, path, temp_dir, sv, fs, arm) ==
    [status |-> 200, detail |-> <<>>, exc |-> NoExc, body |-> body,
     temp_dir |-> temp_dir, path |-> path, svc |-> sv, fs |-> fs, arm |-> arm]

(* schedule_cleanup: a daemon thread per call when AUTO_CLEANUP is set.    *)
(* route and made are bookkeeping: the route that armed the cleanup and   *)
(* the file it sends for this request.                                     *)
schedule_cleanup(cl, id, path, route, made) ==
    IF settings.AUTO_CLEANUP
    THEN cl \cup {[id |-> id, path |-> path, pc |-> "sleep", route |-> route,
                   made |-> made]}
    ELSE cl

(* GET /profile/{username} *)
get_profile_route(username, lib) ==
    TheOne({IF r.raised THEN RouteError(r.exc, NoDir, r.svc, FsNow)
            ELSE RouteOk("json", NoPath, NoDir, r.svc, FsNow, FALSE)
            : r \in {get_profile(username, lib.profile, svc)}})

(* GET /profile/{username}/posts *)
list_profile_posts(username, max_posts, lib) ==
    TheOne({IF r.raised THEN RouteError(r.exc, NoDir, r.svc, r.fs)
            ELSE RouteOk("json", NoPath, NoDir, r.svc, r.fs, FALSE)
            : r \in {svc_list_posts(username, max_posts, lib, svc, FsNow)}})

(* GET /download/all/{username} *)
download_all(username, stamp, max_posts, include_metadata, lib) ==
    LET temp_dir == TempDirName(username, stamp)
        fs0 == create_temp_download_dir(FsNow, username, stamp)
    IN  TheOne({IF stats.raised THEN RouteError(stats.exc, temp_dir, stats.svc, stats.fs)
                ELSE RouteOk("zip", ZipPath(username, DOWNLOAD_DIR), temp_dir, stats.svc,
                             create_zip_archive(stats.fs, <<temp_dir>>, username, DOWNLOAD_DIR),
                             TRUE)
                : stats \in {svc_download_all(username, <<temp_dir>>, max_posts,
                                              include_metadata, lib, svc, fs0)}})

(* GET /download/posts/{username} *)
download_posts(username, stamp, max_posts, include_metadata, lib) ==
    LET temp_dir == TempDirName(username, stamp)
        fs0 == create_temp_download_dir(FsNow, username, stamp)
        zip_name == username \o <<"_posts">>
    IN  TheOne({IF posts.raised THEN RouteError(posts.exc, temp_dir, posts.svc, posts.fs)
                ELSE IF Len(posts.value) = 0
                     THEN RouteEmpty("No posts found to download.", temp_dir, posts.svc,
                                     posts.fs)
                ELSE RouteOk("zip", ZipPath(zip_name, DOWNLOAD_DIR), temp_dir, posts.svc,
                             create_zip_archive(posts.fs, <<temp_dir>>, zip_name, DOWNLOAD_DIR),
                             TRUE)
                : posts \in {svc_download_posts(username, <<temp_dir, <<"posts">>>>, max_posts,
                                                include_metadata, lib, svc, fs0)}})

(* GET /download/post *)
multiple_media_by_count(result) == Cardinality(result.media_files) > 1

(* multiple_media = is_sidecar or mediacount > 1 or len(media_files) > 1 *)
multiple_media(result) ==
    \/ result.is_sidecar
    \/ result.mediacount > 1
    \/ Cardinality(result.media_files) > 1

download_post_by_link(url, stamp, include_metadata, lib) ==
    LET temp_dir == TempDirName(<<"post">>, stamp)
        fs0 == create_temp_download_dir(FsNow, <<"post">>, stamp)
    IN  TheOne({
            IF result.raised
                THEN RouteError(result.exc, temp_dir, result.svc, result.fs)
                ELSE IF result.value.media_files = {}
                     THEN RouteEmpty("No media found for this post.", temp_dir, result.svc,
                                     result.fs)
                ELSE IF multiple_media(result.value)
                     THEN RouteOk("zip", ZipPath(result.value.shortcode, <<temp_dir>>), temp_dir,
                                  result.svc,
                                  create_zip_archive(result.fs, result.value.post_folder,
                                                     result.value.shortcode, <<temp_dir>>),
                                  TRUE)
                ELSE RouteOk("file", TheOne(result.value.media_files), temp_dir, result.svc,
                             result.fs, TRUE)
            : result \in {svc_download_post_by_url(url, <<temp_dir>>, include_metadata, lib,
                                                   svc, fs0)}})

(* GET /download/profile-pic/{username} *)
download_profile_pic(username, stamp, url_only, lib) ==
    LET temp_dir == TempDirName(username, stamp)
        fs0 == create_temp_download_dir(FsNow, username, stamp)
    IN  IF url_only
        THEN TheOne({IF info.raised THEN RouteError(info.exc, NoDir, info.svc, FsNow)
                     ELSE RouteOk("json", NoPath, NoDir, info.svc, FsNow, FALSE)
                     : info \in {get_profile(username, lib.profile, svc)}})
        ELSE TheOne({IF pic.raised THEN RouteError(pic.exc, temp_dir, pic.svc, pic.fs)
                     ELSE IF pic.value = NoPath \/ ~(pic.value \in pic.fs.files)
                          THEN RouteEmpty("Failed to download profile picture.", temp_dir,
                                          pic.svc, pic.fs)
                     ELSE RouteOk("file", pic.value, temp_dir, pic.svc, pic.fs, TRUE)
                     : pic \in {svc_download_profile_pic(username, <<temp_dir>>, lib, svc,
                                                         fs0)}})

(* service = get_insta_service() raised inside the handler's try block,    *)
(* before any temporary directory was made                                 *)
ServiceUnavailable ==
    RouteError(LibExc("Exception", "InstaService() failed"), NoDir, svc, FsNow)

(* What the library was asked and answered during a request (bookkeeping   *)
(* for the properties): the last answer of a scripted call, if it was made *)
Answer(script) ==
    IF Len(script) = 0 THEN [asked |-> FALSE, exc |-> NoExc]
    ELSE [asked |-> TRUE, exc |-> script[Len(script)].exc]

NotAsked == Answer(<<>>)
NothingSeen == [profile |-> NotAsked, is_private |-> FALSE, listing |-> NoExc, post |-> NotAsked]

SawProfile(lib) == [NothingSeen EXCEPT !.profile = Answer(lib.profile)]
SawPosts(lib) ==
    [NothingSeen EXCEPT !.profile = Answer(lib.profile), !.is_private = lib.is_private,
                        !.listing = lib.iter_exc]
SawPost(url, lib) ==
    [NothingSeen EXCEPT !.post = IF extract_shortcode(url).ok THEN Answer(lib.post)
                                 ELSE NotAsked,
                        !.is_private = lib.owner_private]

(* One request: get_insta_service on the event loop thread, then the       *)
(* handler to its response.                                                *)
HandleRequest(route, username, ctor_fails, saw, out) ==
    LET key == thread_id(LoopThread)
        fresh == instances[key] = NoInstance
    IN  \E o \in {IF fresh /\ ctor_fails THEN ServiceUnavailable ELSE out} :
        /\ served' = served + 1
        /\ instances' = IF fresh /\ ~ctor_fails THEN [instances EXCEPT ![key] = nextId]
                        ELSE instances
        /\ built' = IF fresh /\ ~ctor_fails THEN [built EXCEPT ![key] = @ + 1] ELSE built
        /\ nextId' = IF fresh /\ ~ctor_fails THEN nextId + 1 ELSE nextId
        /\ svc' = o.svc
        /\ dirs' = o.fs.dirs
        /\ files' = o.fs.files
        /\ cleaners' = IF o.arm
                       THEN schedule_cleanup(cleaners, served + 1, o.temp_dir, route, o.path)
                       ELSE cleaners
        /\ resp' = [route |-> route, id |-> served + 1, status |-> o.status,
                    detail |-> o.detail, exc |-> o.exc, body |-> o.body,
                    temp_dir |-> o.temp_dir, path |-> o.path, username |-> username,
                    saw |-> IF fresh /\ ctor_fails THEN NothingSeen ELSE saw,
                    content |-> IF o.body = "error"
                                THEN ExceptionResponse(HTTPException(o.status, o.detail)).content
                                ELSE NoContent]
        /\ UNCHANGED <<settings, caller, last, lock, tpc, tgot>>

(* one request, where what becomes of the response after the handler has   *)
(* returned it is left out                                                  *)
Handle(route, username, ctor_fails, saw, out) ==
    /\ HandleRequest(route, username, ctor_fails, saw, out)
    /\ UNCHANGED <<inflight, zipVars>>

CtorOutcomes == IF instances[thread_id(LoopThread)] = NoInstance THEN BOOLEAN ELSE {FALSE}

MaxPostsArgs == {NoMax, 1}

(* the query parameters that can make a difference: max_posts when more    *)
(* than one post is listed, include_metadata when a post is listed         *)
MaxPostsFor(lib) == IF Len(lib.posts) > 1 THEN MaxPostsArgs ELSE {NoMax}
MetadataFor(lib) == IF lib.posts = <<>> THEN {TRUE} ELSE BOOLEAN

GetProfile ==
    /\ served < RequestCap
    /\ \E username \in Usernames, lib \in ProfileWorlds, cf \in CtorOutcomes :
           Handle("get_profile", username, cf, SawProfile(lib),
                  get_profile_route(username, lib))

ListProfilePosts ==
    /\ served < RequestCap
    /\ \E username \in Usernames, max_posts \in {1, 2}, lib \in PostsWorlds, cf \in CtorOutcomes :
           Handle("list_profile_posts", username, cf, SawPosts(lib),
                  list_profile_posts(username, max_posts, lib))

DownloadAll ==
    /\ served < RequestCap
    /\ \E username \in Usernames, stamp \in Stamps, lib \in AllWorlds, cf \in CtorOutcomes :
        \E max_posts \in MaxPostsFor(lib), include_metadata \in MetadataFor(lib) :
           Handle("download_all", username, cf, SawPosts(lib),
                  download_all(username, stamp, max_posts, include_metadata, lib))

DownloadPosts ==
    /\ served < RequestCap
    /\ \E username \in Usernames, stamp \in Stamps, lib \in PostsWorlds, cf \in CtorOutcomes :
        \E max_posts \in MaxPostsFor(lib), include_metadata \in MetadataFor(lib) :
           Handle("download_posts", username, cf, SawPosts(lib),
                  download_posts(username, stamp, max_posts, include_metadata, lib))

DownloadPostByLink ==
    /\ served < RequestCap
    /\ \E url \in Identifiers, stamp \in Stamps, include_metadata \in BOOLEAN,
          lib \in PostWorlds, cf \in CtorOutcomes :
           Handle("download_post_by_link", <<>>, cf, SawPost(url, lib),
                  download_post_by_link(url, stamp, include_metadata, lib))

DownloadProfilePic ==
    /\ served < RequestCap
    /\ \E username \in Usernames, stamp \in Stamps, url_only \in BOOLEAN,
          lib \in PicWorlds, cf \in CtorOutcomes :
           Handle("download_profile_pic", username, cf, SawProfile(lib),
                  download_profile_pic(username, stamp, url_only, lib))

----------------------------------------------------------------------------
(* GET /download/post on its own, with what the service handed the route   *)
(* kept beside the response                                                *)

SawResult(url, stamp, include_metadata, lib) ==
    TheOne({[profile |-> NotAsked, is_private |-> lib.owner_private, listing |-> NoExc,
             post |-> Answer(lib.post), url |-> url, returned |-> ~r.raised,
             media_files |-> IF r.raised THEN {} ELSE r.value.media_files,
             is_sidecar |-> ~r.raised /\ r.value.is_sidecar,
             mediacount |-> IF r.raised THEN 0 ELSE r.value.mediacount]
            : r \in {svc_download_post_by_url(
                        url, <<TempDirName(<<"post">>, stamp)>>, include_metadata, lib, svc,
                        create_temp_download_dir(FsNow, <<"post">>, stamp))}})

PostByLink ==
    /\ served < RequestCap
    /\ \E url \in Identifiers, stamp \in Stamps, include_metadata \in BOOLEAN,
          lib \in PostWorlds, cf \in CtorOutcomes :
           Handle("download_post_by_link", <<>>, cf,
                  SawResult(url, stamp, include_metadata, lib),
                  download_post_by_link(url, stamp, include_metadata, lib))

----------------------------------------------------------------------------
(* GET /download/profile-pic/{username} on its own, with the fetches the   *)
(* service made and what it returned kept beside the response.  Besides    *)
(* PicOutcomes the profile may carry no picture URL at all ("nourl"): the  *)
(* direct fetch is then not made and the fallback leaves no file.          *)

PicFetchWorlds == PicWorlds \cup {[w EXCEPT !.pic = "nourl"] : w \in ProfileOk}

profile_pic_calls_both(pic) == <<"requests.get", "download_profilepic">>

(* the upstream calls of download_profile_pic in order: requests.get when  *)
(* profile.profile_pic_url is set, with `return dest` when it worked, and  *)
(* loader.download_profilepic after that                                   *)
profile_pic_calls(pic) ==
    (IF pic # "nourl" THEN <<"requests.get">> ELSE <<>>)
        \o (IF pic = "direct" THEN <<>> ELSE <<"download_profilepic">>)

SawPic(username, stamp, url_only, lib) ==
    TheOne({[profile |-> Answer(lib.profile), is_private |-> FALSE, listing |-> NoExc,
             post |-> NotAsked, pic |-> lib.pic,
             fetched |-> ~url_only /\ ~r.raised,
             calls |-> IF ~url_only /\ ~r.raised THEN profile_pic_calls(lib.pic) ELSE <<>>,
             value |-> IF ~url_only /\ ~r.raised THEN r.value ELSE NoPath]
            : r \in {svc_download_profile_pic(
                        username, <<TempDirName(username, stamp)>>, lib, svc,
                        create_temp_download_dir(FsNow, username, stamp))}})

ProfilePicRequest ==
    /\ served < RequestCap
    /\ \E username \in Usernames, stamp \in Stamps, url_only \in BOOLEAN,
          lib \in PicFetchWorlds, cf \in CtorOutcomes :
           Handle("download_profile_pic", username, cf,
                  SawPic(username, stamp, url_only, lib),
                  download_profile_pic(username, stamp, url_only, lib))

(* GET /profile/{username}/posts on profiles of up to ListCap posts, each   *)
(* readable or not; max_posts is within Query(ge=1, le=50)                  *)
ListCap == 3
ListKinds == {"ok", "error"}
ListSeqs == UNION {[1..n -> ListKinds] : n \in 0..ListCap}
ListWorlds ==
    ProfileFails
        \cup {[w EXCEPT !.is_private = TRUE] : w \in ProfileOk}
        \cup {[w EXCEPT !.iter_exc = e] : w \in ProfileOk, e \in IterExcs}
        \cup {[w EXCEPT !.posts = ps] : w \in ProfileOk, ps \in ListSeqs}

NoList == [username |-> <<>>, total_posts |-> 0, returned_posts |-> 0, posts |-> <<>>]

SawList(username, max_posts, lib) ==
    TheOne({[profile |-> Answer(lib.profile), is_private |-> lib.is_private,
             listing |-> lib.iter_exc, post |-> NotAsked,
             upstream |-> lib.posts, max_posts |-> max_posts,
             listed |-> ~r.raised,
             value |-> IF r.raised THEN NoList ELSE r.value]
            : r \in {svc_list_posts(username, max_posts, lib, svc, FsNow)}})

ListPostsRequest ==
    /\ served < RequestCap
    /\ \E username \in Usernames, max_posts \in 1..ListCap, lib \in ListWorlds,
          cf \in CtorOutcomes :
           Handle("list_profile_posts", username, cf, SawList(username, max_posts, lib),
                  list_profile_posts(username, max_posts, lib))

----------------------------------------------------------------------------
(* download_posts of the service called on a fresh directory of the caller, *)
(* on profiles of up to ListCap posts                                       *)
DownloadSeqs == UNION {[1..n -> PostKinds] : n \in 0..ListCap}
DownloadWorlds ==
    ProfileFails
        \cup {[w EXCEPT !.is_private = TRUE] : w \in ProfileOk}
        \cup {[w EXCEPT !.iter_exc = e] : w \in ProfileOk, e \in IterExcs}
        \cup {[w EXCEPT !.posts = ps] : w \in ProfileOk, ps \in DownloadSeqs}

CallDownloadPosts ==
    /\ caller = "idle"
    /\ \E username \in Usernames, stamp \in Stamps, max_posts \in {NoMax} \cup 1..ListCap,
          include_metadata \in BOOLEAN, lib \in DownloadWorlds :
         \E r \in {svc_download_posts(username, <<TempDirName(username, stamp)>>, max_posts,
                                      include_metadata, lib, svc,
                                      create_temp_download_dir(FsNow, username, stamp))} :
             /\ svc' = r.svc
             /\ dirs' = r.fs.dirs
             /\ files' = r.fs.files
             /\ last' = [op |-> "download_posts", username |-> username,
                         script |-> lib.profile, raised |-> r.raised, exc |-> r.exc,
                         log |-> <<>>, before |-> svc.proxy, lib |-> lib,
                         max_posts |-> max_posts, value |-> r.value,
                         target_dir |-> TempDirName(username, stamp)]
    /\ caller' = "done"
    /\ UNCHANGED <<settings, inflight, zipVars, svcVars, cleaners, resp, served>>

(* the caller is done with the list and removes its directory *)
CallDiscardsPosts ==
    /\ caller = "done"
    /\ last.op = "download_posts"
    /\ dirs' = cleanup_directory(FsNow, last.target_dir).dirs
    /\ files' = cleanup_directory(FsNow, last.target_dir).files
    /\ caller' = "idle"
    /\ last' = Idle
    /\ UNCHANGED <<settings, inflight, zipVars, svc, svcVars, cleaners, resp, served>>

----------------------------------------------------------------------------
(* download_all of the service called on a fresh directory of the caller *)
CallDownloadAll ==
    /\ caller = "idle"
    /\ \E username \in Usernames, stamp \in Stamps, max_posts \in MaxPostsArgs,
          include_metadata \in BOOLEAN, lib \in AllWorlds :
         \E r \in {svc_download_all(username, <<TempDirName(username, stamp)>>, max_posts,
                                    include_metadata, lib, svc,
                                    create_temp_download_dir(FsNow, username, stamp))} :
             /\ svc' = r.svc
             /\ dirs' = r.fs.dirs
             /\ files' = r.fs.files
             /\ last' = [op |-> "download_all", username |-> username,
                         script |-> lib.profile, raised |-> r.raised, exc |-> r.exc,
                         log |-> <<>>, before |-> svc.proxy, lib |-> lib,
                         max_posts |-> max_posts, value |-> r.value,
                         target_dir |-> TempDirName(username, stamp)]
    /\ caller' = "done"
    /\ UNCHANGED <<settings, inflight, zipVars, svcVars, cleaners, resp, served>>

(* the caller is done with the statistics and removes its directory *)
CallDiscards ==
    /\ caller = "done"
    /\ last.op = "download_all"
    /\ dirs' = cleanup_directory(FsNow, last.target_dir).dirs
    /\ files' = cleanup_directory(FsNow, last.target_dir).files
    /\ caller' = "idle"
    /\ last' = Idle
    /\ UNCHANGED <<settings, inflight, zipVars, svc, svcVars, cleaners, resp, served>>

----------------------------------------------------------------------------
(* routes/download.py proxy_thumbnail.  It asks for no InstaService.       *)

(* str.lower, on ASCII text *)
str_lower(s) ==
    IF s = <<>> THEN <<>>
    ELSE [i \in DOMAIN s |-> IF s[i] \in DOMAIN LowerOf THEN LowerOf[s[i]] ELSE s[i]]

Letters == Chars(AsciiLower) \cup Chars(AsciiUpper)
SchemeChars == Letters \cup Chars(Digits) \cup {"+", "-", "."}

(* the first position from i on that holds a character of cs, Len(s) + 1   *)
(* when there is none                                                      *)
find(s, cs, i) ==
    IF \E k \in i..Len(s) : s[k] \in cs
    THEN CHOOSE k \in i..Len(s) : s[k] \in cs /\ \A m \in i..(k - 1) : ~(s[m] \in cs)
    ELSE Len(s) + 1

(* the last position that holds a character of cs, 0 when there is none *)
rfind(s, cs) ==
    IF \E k \in 1..Len(s) : s[k] \in cs
    THEN CHOOSE k \in 1..Len(s) : s[k] \in cs /\ \A m \in (k + 1)..Len(s) : ~(s[m] \in cs)
    ELSE 0

After(s, i) == SubSeq(s, i, Len(s))

(* urllib.parse.urlsplit: the scheme, lowercased, and the network location; *)
(* it raises ValueError when the location has one bracket without the other *)
urlsplit(url) ==
    LET colon == find(url, {":"}, 1)
        has_scheme == /\ colon > 1
                      /\ colon <= Len(url)
                      /\ url[1] \in Letters
                      /\ \A k \in 1..(colon - 1) : url[k] \in SchemeChars
        rest == IF has_scheme THEN After(url, colon + 1) ELSE url
        has_netloc == Len(rest) >= 2 /\ rest[1] = "/" /\ rest[2] = "/"
        netloc == IF has_netloc THEN SubSeq(rest, 3, find(rest, {"/", "?", "#"}, 3) - 1)
                  ELSE <<>>
    IN  [raised |-> ("[" \in Chars(netloc)) # ("]" \in Chars(netloc)),
         scheme |-> IF has_scheme THEN str_lower(SubSeq(url, 1, colon - 1)) ELSE <<>>,
         netloc |-> netloc]

(* ParseResult.hostname: what follows the last "@", up to the port,        *)
(* lowercased; the empty text stands for None                              *)
hostname(netloc) ==
    LET hostinfo == After(netloc, rfind(netloc, {"@"}) + 1)
        bracket == find(hostinfo, {"["}, 1)
        bracketed == After(hostinfo, bracket + 1)
    IN  str_lower(IF bracket <= Len(hostinfo)
                  THEN SubSeq(bracketed, 1, find(bracketed, {"]"}, 1) - 1)
                  ELSE SubSeq(hostinfo, 1, find(hostinfo, {":"}, 1) - 1))

(* parsed = urlparse(url) *)
urlparse(url) ==
    TheOne({[raised |-> split.raised, scheme |-> split.scheme,
             hostname |-> IF split.raised THEN <<>> ELSE hostname(split.netloc)]
            : split \in {urlsplit(url)}})

allowed_hosts ==
    {<<"c", "d", "n", "i", "n", "s", "t", "a", "g", "r", "a", "m", ".", "c", "o", "m">>,
     <<"f", "b", "c", "d", "n", ".", "n", "e", "t">>,
     <<"a", "k", "a", "m", "a", "i", "h", "d", ".", "n", "e", "t">>,
     <<"i", "n", "s", "t", "a", "g", "r", "a", "m", ".", "c", "o", "m">>}

(* str.startswith *)
startswith(s, prefix) == Len(s) >= Len(prefix) /\ SubSeq(s, 1, Len(prefix)) = prefix

(* sub in s *)
contains(s, sub) ==
    \E i \in 1..(Len(s) - Len(sub) + 1) : SubSeq(s, i, i + Len(sub) - 1) = sub

(* what the upstream server does with a request that reaches it *)
UpstreamOutcomes == {"200", "404", "timeout"}

HttpSchemes == {<<"h", "t", "t", "p">>, <<"h", "t", "t", "p", "s">>}

NoRequest == [sent |-> FALSE, host |-> <<>>, raised |-> FALSE, exc |-> NoExc, status_code |-> 0]

(* requests.get(url, stream=True, timeout=20): a request goes out to the   *)
(* host of the URL when the scheme has a connection adapter; otherwise     *)
(* requests raises InvalidSchema before sending anything                   *)
requests_get(parsed, upstream) ==
    IF ~(parsed.scheme \in HttpSchemes)
    THEN [NoRequest EXCEPT !.raised = TRUE,
                           !.exc = LibExc("InvalidSchema", "No connection adapters were found")]
    ELSE IF upstream = "timeout"
    THEN [NoRequest EXCEPT !.sent = TRUE, !.host = parsed.hostname, !.raised = TRUE,
                           !.exc = LibExc("ReadTimeout", "Read timed out.")]
    ELSE [NoRequest EXCEPT !.sent = TRUE, !.host = parsed.hostname,
                           !.status_code = IF upstream = "200" THEN 200 ELSE 404]

(* the route: the exception that leaves it (NoExc when it returns the      *)
(* StreamingResponse) and the upstream request it made                     *)
proxy_thumbnail(url, upstream) ==
    TheOne({
        IF parsed.raised
        THEN [exc |-> LibExc("ValueError", "Invalid IPv6 URL"), parsed |-> parsed,
              request |-> NoRequest]
        ELSE IF ~startswith(parsed.scheme, <<"h", "t", "t", "p">>)
        THEN [exc |-> HTTPException(400, <<"Invalid URL scheme">>), parsed |-> parsed,
              request |-> NoRequest]
        ELSE IF ~(\E host \in allowed_hosts : contains(parsed.hostname, host))
        THEN [exc |-> HTTPException(400, <<"URL host not allowed">>), parsed |-> parsed,
              request |-> NoRequest]
        ELSE TheOne({
            [exc |-> IF request.raised THEN HTTPException(502, StrOf(request.exc))
                     ELSE IF request.status_code # 200
                     THEN HTTPException(502, <<"Failed to fetch thumbnail">>)
                     ELSE NoExc,
             parsed |-> parsed, request |-> request]
            : request \in {requests_get(parsed, upstream)}})
        : parsed \in {urlparse(url)}})

UrlSchemes ==
    {<<"h", "t", "t", "p", ":", "/", "/">>,
     <<"h", "t", "t", "p", "s", ":", "/", "/">>,
     <<"H", "T", "T", "P", ":", "/", "/">>,
     <<"h", "t", "t", "p", "x", ":", "/", "/">>,
     <<"f", "t", "p", ":", "/", "/">>,
     <<"/", "/">>}
UrlUserinfos ==
    {<<>>,
     <<"i", "n", "s", "t", "a", "g", "r", "a", "m", ".", "c", "o", "m", "@">>}
UrlHosts ==
    {<<"i", "n", "s", "t", "a", "g", "r", "a", "m", ".", "c", "o", "m">>,
     <<"s", "c", "o", "n", "t", "e", "n", "t", ".", "c", "d", "n", "i", "n", "s", "t", "a", "g", "r", "a", "m", ".", "c", "o", "m">>,
     <<"x", ".", "F", "B", "C", "D", "N", ".", "n", "e", "t">>,
     <<"a", "k", "a", "m", "a", "i", "h", "d", ".", "n", "e", "t">>,
     <<"e", "v", "i", "l", ".", "n", "e", "t">>,
     <<"i", "n", "s", "t", "a", "g", "r", "a", "m", ".", "c", "o", "m", ".", "e", "v", "i", "l", ".", "n", "e", "t">>,
     <<"e", "v", "i", "l", "i", "n", "s", "t", "a", "g", "r", "a", "m", ".", "c", "o", "m">>,
     <<"[">>,
     <<>>}
UrlPorts ==
    {<<>>,
     <<":", "8", "0", "8", "0">>}
UrlPaths ==
    {<<>>,
     <<"/", "a", ".", "j", "p", "g">>,
     <<"/", "i", "n", "s", "t", "a", "g", "r", "a", "m", ".", "c", "o", "m", "/", "a", ".", "j", "p", "g">>,
     <<"?", "u", "=", "f", "b", "c", "d", "n", ".", "n", "e", "t">>}

ThumbnailUrls ==
    {scheme \o userinfo \o host \o port \o path :
        scheme \in UrlSchemes, userinfo \in UrlUserinfos, host \in UrlHosts,
        port \in UrlPorts, path \in UrlPaths}

(* GET /proxy/thumbnail?url=... *)
ProxyThumbnail ==
    /\ served < RequestCap
    /\ \E url \in ThumbnailUrls, upstream \in UpstreamOutcomes :
         \E o \in {proxy_thumbnail(url, upstream)} :
             resp' = [route |-> "proxy_thumbnail", id |-> served + 1,
                      status |-> IF o.exc = NoExc THEN 200 ELSE ExceptionResponse(o.exc).status,
                      detail |-> IF o.exc = NoExc THEN <<>>
                                 ELSE ExceptionResponse(o.exc).content.detail,
                      exc |-> o.exc,
                      body |-> IF o.exc = NoExc THEN "stream" ELSE "error",
                      temp_dir |-> NoDir, path |-> NoPath, username |-> <<>>,
                      saw |-> NothingSeen,
                      content |-> IF o.exc = NoExc THEN NoContent
                                  ELSE ExceptionResponse(o.exc).content,
                      url |-> url, scheme |-> o.parsed.scheme,
                      hostname |-> o.parsed.hostname,
                      sent |-> o.request.sent, upstream_host |-> o.request.host]
    /\ served' = served + 1
    /\ UNCHANGED <<settings, inflight, zipVars, callVars, svcVars, dirs, files, cleaners>>

----------------------------------------------------------------------------
(* _extract_shortcode called on its own.  The identifiers are put together *)
(* from an origin, a path marker, a code and a tail.                       *)

Origins ==
    {<<>>,
     <<"h", "t", "t", "p", "s", ":", "/", "/", "i", "n", "s", "t", "a", "g", "r", "a", "m", ".", "c", "o", "m">>,
     <<"h", "t", "t", "p", "s", ":", "/", "/", "w", "w", "w", ".", "I", "N", "S", "T", "A", "G", "R", "A", "M", ".", "c", "o", "m">>,
     <<"h", "t", "t", "p", "s", ":", "/", "/", "e", "v", "i", "l", ".", "c", "o", "m">>,
     <<"x">>}
InstagramOrigins == {<<"h", "t", "t", "p", "s", ":", "/", "/", "i", "n", "s", "t", "a", "g", "r", "a", "m", ".", "c", "o", "m">>, <<"h", "t", "t", "p", "s", ":", "/", "/", "w", "w", "w", ".", "I", "N", "S", "T", "A", "G", "R", "A", "M", ".", "c", "o", "m">>}
Markers ==
    {<<>>,
     <<"/", "p", "/">>,
     <<"/", "P", "/">>,
     <<"/", "r", "e", "e", "l", "/">>,
     <<"/", "t", "v", "/">>,
     <<"/", "s", "t", "o", "r", "i", "e", "s", "/", "u", "/">>,
     <<"/", "s", "t", "o", "r", "i", "e", "s", "/", "/">>,
     <<"/", "x", "/">>}
PostMarkers == {<<"/", "p", "/">>, <<"/", "P", "/">>, <<"/", "r", "e", "e", "l", "/">>, <<"/", "t", "v", "/">>}
StoryMarkers == {<<"/", "s", "t", "o", "r", "i", "e", "s", "/", "u", "/">>}
Codes ==
    {<<>>,
     <<"a", "b", "c", "d">>,
     <<"A", "b", "7", "_", "-">>,
     <<"A", "B", "C", "1", "2", "3", "x", "y">>,
     <<"a", "b", "c", "d", "U+017F">>,
     <<"a", "b", "?", "d", "e">>}
Tails ==
    {<<>>,
     <<"/">>,
     <<"/", "?", "x", "=", "1">>,
     <<"/", "p", "/", "Z", "Z", "Z", "Z", "Z">>}

(* the record of the calls made on one identifier *)
ExtractInput(origin, marker, code, tail) ==
    [op |-> "_extract_shortcode", identifier |-> origin \o marker \o code \o tail,
     origin |-> origin, marker |-> marker, code |-> code, tail |-> tail,
     calls |-> 0, raised |-> FALSE, value |-> <<>>,
     again_raised |-> FALSE, again_value |-> <<>>]

(* shortcode = self._extract_shortcode(identifier) *)
ExtractShortcode ==
    /\ caller = "idle"
    /\ last.calls = 0
    /\ \E r \in {extract_shortcode(last.identifier)} :
         /\ last' = [last EXCEPT !.calls = 1, !.raised = ~r.ok, !.value = r.shortcode]
         /\ caller' = IF r.ok THEN "returned" ELSE "raised"
    /\ UNCHANGED <<settings, inflight, zipVars, svc, svcVars, routeVars>>

(* self._extract_shortcode(shortcode), on the value the first call returned *)
ExtractAgain ==
    /\ caller = "returned"
    /\ last.calls = 1
    /\ \E r \in {extract_shortcode(last.value)} :
         last' = [last EXCEPT !.calls = 2, !.again_raised = ~r.ok,
                              !.again_value = r.shortcode]
    /\ caller' = "done"
    /\ UNCHANGED <<settings, inflight, zipVars, svc, svcVars, routeVars>>

----------------------------------------------------------------------------
(* The zip utilities called on their own: a caller makes temporary         *)
(* directories, writes files into them, archives and removes them.         *)

ZipSubjects == {<<"alice">>}
RelPaths ==
    {<<ProfilePicFile>>, <<<<"posts">>, ProfilePicFile>>, <<<<"posts">>, MetadataFile>>}
(* the content of a file: its bytes, and its entries when it is an archive *)
Bytes(b) == [bytes |-> b, entries |-> {}]
Archive(entries) == [bytes |-> "zip", entries |-> entries]
Contents == {Bytes("x"), Bytes("y")}

(* what is read back from an archive that is still being written *)
PartialArchive == Bytes("partial")

IsBelow(path, directory) ==
    Len(path) > Len(directory) /\ SubSeq(path, 1, Len(directory)) = directory

(* Path.parent *)
parent(path) == SubSeq(path, 1, Len(path) - 1)

relative_to_name(path, source_dir) == <<path[Len(path)]>>

(* file_path.relative_to(source_dir) *)
relative_to(path, source_dir) == SubSeq(path, Len(source_dir) + 1, Len(path))

(* the entries written by the loop of create_zip_archive: ZipFile(zip_path, *)
(* 'w') has created the archive file before os.walk(source_dir) lists the  *)
(* tree, so an archive placed under source_dir is one of the files walked  *)
zip_entries(fs, dat, source_dir, zip_path) ==
    {[arcname |-> relative_to(f, source_dir),
      content |-> IF f = zip_path THEN PartialArchive ELSE dat[f]] :
        f \in {g \in fs.files \cup {zip_path} : IsBelow(g, source_dir)}}

(* ZipFile.extractall: one file per entry name *)
extractall(entries) ==
    {e \in entries : e = CHOOSE x \in entries : x.arcname = e.arcname}

(* the record of one call of a utility *)
UtilCall ==
    [op |-> "none", directory |-> NoDir, raised |-> FALSE, again |-> FALSE,
     source_dir |-> NoPath, zip_path |-> NoPath, tree |-> {}, inside |-> FALSE,
     held |-> {}]

WithData(dat, path, c) ==
    [q \in DOMAIN dat \cup {path} |-> IF q = path THEN c ELSE dat[q]]

(* Requests for archives that overlap.  A handler runs from start to end on *)
(* the event loop; the FileResponse it returns is sent afterwards, reading  *)
(* the file at its path then, while the handlers of later requests run.     *)
InFlightCap == 2
(* two requests get the same text from the clock, or not *)
ArchiveStamps == {"1", "2"}
ArchiveWorlds ==
    {[w EXCEPT !.posts = ps] : w \in {x \in ProfileOk : Len(x.profile) = 1},
                               ps \in {<<"ok">>}}

(* the entries create_zip_archive writes for the files below source_dir,   *)
(* each with the file it was read from                                      *)
archive_of(fs, source_dir) ==
    Archive({[arcname |-> relative_to(f, source_dir), source |-> f] :
                f \in {g \in fs.files : IsBelow(g, source_dir)}})

(* a handler that answers with an archive: the archive file gets its        *)
(* entries and the response is yet to be sent                               *)
ArchiveRequest(route, username, ctor_fails, saw, out) ==
    /\ HandleRequest(route, username, ctor_fails, saw, out)
    /\ IF resp'.body = "zip"
       THEN /\ data' = WithData(data, resp'.path, archive_of(out.fs, <<resp'.temp_dir>>))
            /\ inflight' = inflight \cup {[id |-> resp'.id, path |-> resp'.path,
                                            temp_dir |-> resp'.temp_dir]}
       ELSE UNCHANGED <<data, inflight>>
    /\ UNCHANGED <<returned, ncalls>>

ArchiveAll ==
    /\ served < InFlightCap
    /\ \E username \in Usernames, stamp \in ArchiveStamps, lib \in ArchiveWorlds,
          cf \in CtorOutcomes :
           ArchiveRequest("download_all", username, cf, SawPosts(lib),
                          download_all(username, stamp, NoMax, TRUE, lib))

ArchivePosts ==
    /\ served < InFlightCap
    /\ \E username \in Usernames, stamp \in ArchiveStamps, lib \in ArchiveWorlds,
          cf \in CtorOutcomes :
           ArchiveRequest("download_posts", username, cf, SawPosts(lib),
                          download_posts(username, stamp, NoMax, TRUE, lib))

(* FileResponse(path=zip_path): the file at the path is sent *)
SendFile ==
    \E r \in inflight :
        /\ inflight' = inflight \ {r}
        /\ UNCHANGED <<settings, zipVars, callVars, svcVars, routeVars>>

(* temp_dir = create_temp_download_dir(username) *)
MakeTempDir ==
    /\ ncalls < UtilCap
    /\ \E username \in ZipSubjects, stamp \in Stamps :
         /\ dirs' = create_temp_download_dir(FsNow, username, stamp).dirs
         /\ files' = create_temp_download_dir(FsNow, username, stamp).files
         /\ returned' = Append(returned, TempDirName(username, stamp))
         /\ last' = [UtilCall EXCEPT !.op = "create_temp_download_dir",
                                     !.directory = TempDirName(username, stamp),
                                     !.held = {f \in files :
                                                 Under(TempDirName(username, stamp), f)}]
    /\ ncalls' = ncalls + 1
    /\ UNCHANGED <<settings, inflight, svc, caller, svcVars, cleaners, resp, served, data>>

(* the caller writes a file below one of its directories *)
WriteFile ==
    /\ ncalls < UtilCap
    /\ \E d \in dirs, rel \in RelPaths, c \in Contents :
         /\ files' = write_file(FsNow, <<d>> \o rel).files
         /\ data' = WithData(data, <<d>> \o rel, c)
         /\ last' = [UtilCall EXCEPT !.op = "write", !.directory = d]
    /\ ncalls' = ncalls + 1
    /\ UNCHANGED <<settings, inflight, svc, caller, svcVars, cleaners, resp, served, dirs, returned>>

(* create_zip_archive(source_dir, zip_name, output_dir); output_dir = None  *)
(* stands for source_dir.parent                                            *)
ZipDirectory ==
    /\ ncalls < UtilCap
    /\ \E d \in dirs, zip_name \in ZipSubjects :
         \E source_dir \in {<<d>>, <<d, <<"posts">>>>} :
         \E output_dir \in {parent(source_dir), source_dir} :
             /\ dirs' = create_zip_archive(FsNow, source_dir, zip_name, output_dir).dirs
             /\ files' = create_zip_archive(FsNow, source_dir, zip_name, output_dir).files
             /\ data' = WithData(data, ZipPath(zip_name, output_dir),
                                 Archive(zip_entries(FsNow, data, source_dir,
                                                     ZipPath(zip_name, output_dir))))
             /\ last' = [UtilCall EXCEPT
                            !.op = "create_zip_archive",
                            !.source_dir = source_dir,
                            !.zip_path = ZipPath(zip_name, output_dir),
                            !.inside = IsBelow(ZipPath(zip_name, output_dir), source_dir),
                            !.tree = {[arcname |-> SubSeq(f, Len(source_dir) + 1, Len(f)),
                                       content |-> data[f]] :
                                          f \in {g \in files : IsBelow(g, source_dir)}}]
    /\ ncalls' = ncalls + 1
    /\ UNCHANGED <<settings, inflight, svc, caller, svcVars, cleaners, resp, served, returned>>

(* cleanup_directory(directory), on a directory that may be there or not   *)
RemoveDirectory ==
    /\ ncalls < UtilCap
    /\ \E username \in ZipSubjects, stamp \in Stamps :
         \E r \in {cleanup_directory_call(FsNow, TempDirName(username, stamp))} :
             /\ dirs' = r.fs.dirs
             /\ files' = r.fs.files
             /\ data' = [q \in DOMAIN data \cap r.fs.files |-> data[q]]
             /\ last' = [UtilCall EXCEPT
                            !.op = "cleanup_directory",
                            !.directory = TempDirName(username, stamp),
                            !.raised = r.raised,
                            !.again = /\ last.op = "cleanup_directory"
                                      /\ last.directory = TempDirName(username, stamp)]
    /\ ncalls' = ncalls + 1
    /\ UNCHANGED <<settings, inflight, svc, caller, svcVars, cleaners, resp, served, returned>>

----------------------------------------------------------------------------
(* schedule_cleanup.cleanup, one thread per armed request *)

Moved(c, pc) == (cleaners \ {c}) \cup {[c EXCEPT !.pc = pc]}

SiblingZip(path) == <<path \o <<".zip">>>>

(* time.sleep(delay_seconds) is over; cleanup_directory: directory.exists() *)
CleanupDirExists(c) ==
    /\ c.pc = "sleep"
    /\ cleaners' = Moved(c, IF c.path \in dirs THEN "rmtree" ELSE "zip")
    /\ UNCHANGED <<settings, inflight, zipVars, callVars, svcVars, dirs, files, resp, served>>

(* shutil.rmtree(directory); it raises, and ends the thread, when the      *)
(* directory has gone since exists() was called                           *)
CleanupRmtree(c) ==
    /\ c.pc = "rmtree"
    /\ IF c.path \in dirs
       THEN /\ dirs' = cleanup_directory(FsNow, c.path).dirs
            /\ files' = cleanup_directory(FsNow, c.path).files
            /\ cleaners' = Moved(c, "zip")
       ELSE /\ cleaners' = cleaners \ {c}
            /\ UNCHANGED <<dirs, files>>
    /\ UNCHANGED <<settings, inflight, zipVars, callVars, svcVars, resp, served>>

(* zip_path = path.parent / f"{path.name}.zip"; if zip_path.exists()       *)
CleanupZipExists(c) ==
    /\ c.pc = "zip"
    /\ cleaners' = IF SiblingZip(c.path) \in files THEN Moved(c, "unlink")
                   ELSE cleaners \ {c}
    /\ UNCHANGED <<settings, inflight, zipVars, callVars, svcVars, dirs, files, resp, served>>

(* zip_path.unlink() *)
CleanupUnlink(c) ==
    /\ c.pc = "unlink"
    /\ files' = files \ {SiblingZip(c.path)}
    /\ cleaners' = cleaners \ {c}
    /\ UNCHANGED <<settings, inflight, zipVars, callVars, svcVars, dirs, resp, served>>

----------------------------------------------------------------------------
(* Initial states *)

NoResp == [route |-> "none", id |-> 0, status |-> 0, detail |-> <<>>, exc |-> NoExc,
           body |-> "none", temp_dir |-> NoDir, path |-> NoPath, username |-> <<>>,
           saw |-> NothingSeen, content |-> NoContent]

(* everything but the record of the last isolated call *)
InitOther ==
    /\ svc = NewService
    /\ caller = "idle"
    /\ lock = NoThread
    /\ instances = [k \in ThreadIds |-> NoInstance]
    /\ tpc = [t \in Threads |-> "call"]
    /\ tgot = [t \in Threads |-> <<>>]
    /\ built = [k \in ThreadIds |-> 0]
    /\ nextId = 1
    /\ dirs = {}
    /\ files = {}
    /\ cleaners = {}
    /\ resp = NoResp
    /\ served = 0
    /\ data = <<>>
    /\ returned = <<>>
    /\ ncalls = 0
    /\ inflight = {}

InitState ==
    /\ last = Idle
    /\ InitOther

(* every retry/backoff configuration, default (empty) proxy pool *)
InitBackoff ==
    /\ settings \in {[DefaultSettings EXCEPT !.PROXY_RETRY_MAX = n,
                                             !.PROXY_BACKOFF_BASE = b,
                                             !.PROXY_BACKOFF_JITTER = j,
                                             !.PROXY_ROTATION = r] :
                        n \in 0..RetryCap, b \in {10, 15, 20}, j \in {0, 5, 10},
                        r \in BOOLEAN}
    /\ InitState

(* every proxy pool, one retry per call, no jitter *)
InitProxy ==
    /\ settings \in {[DefaultSettings EXCEPT !.PROXIES = p,
                                             !.PROXY_ROTATION = r,
                                             !.PROXY_RETRY_MAX = 2,
                                             !.PROXY_BACKOFF_JITTER = 0] :
                        p \in ProxyPools, r \in BOOLEAN}
    /\ InitState

InitSvc ==
    /\ settings = DefaultSettings
    /\ InitState

(* the routes: default proxy pool, at most one attempt per library call,   *)
(* auto-cleanup on or off                                                  *)
InitRoutes ==
    /\ settings \in {[DefaultSettings EXCEPT !.PROXY_RETRY_MAX = n,
                                             !.PROXY_BACKOFF_JITTER = 0,
                                             !.AUTO_CLEANUP = a] :
                        n \in 0..1, a \in BOOLEAN}
    /\ InitState

(* every identifier, before the first call *)
InitExtract ==
    /\ settings = DefaultSettings
    /\ last \in {ExtractInput(origin, marker, code, tail) :
                    origin \in Origins, marker \in Markers, code \in Codes, tail \in Tails}
    /\ InitOther

NextBackoff ==
    \/ CallWithBackoff
    \/ CallGetProfile
    \/ CallReturns

NextSvc ==
    \E t \in Threads :
        \/ LockAcquire(t)
        \/ CheckInstance(t)
        \/ ConstructInstance(t)
        \/ ConstructFails(t)
        \/ ReturnInstance(t)
        \/ RetryAfterFailure(t)

NextRoutes ==
    \/ GetProfile
    \/ ListProfilePosts
    \/ DownloadAll
    \/ DownloadPosts
    \/ DownloadPostByLink
    \/ DownloadProfilePic
    \/ \E c \in cleaners :
          \/ CleanupDirExists(c)
          \/ CleanupRmtree(c)
          \/ CleanupZipExists(c)
          \/ CleanupUnlink(c)

NextService ==
    \/ CallDownloadAll
    \/ CallDiscards

SpecService == InitRoutes /\ [][NextService]_vars
NextZip ==
    \/ MakeTempDir
    \/ WriteFile
    \/ ZipDirectory
    \/ RemoveDirectory

SpecZip == InitSvc /\ [][NextZip]_vars
NextExtract ==
    \/ ExtractShortcode
    \/ ExtractAgain

SpecExtract == InitExtract /\ [][NextExtract]_vars
(* The requests below write no file "<temp_dir>.zip", the only file a     *)
(* cleanup thread unlinks, so its unlink step is never taken after them.    *)
NextPostLink ==
    \/ PostByLink
    \/ \E c \in cleaners :
          \/ CleanupDirExists(c)
          \/ CleanupRmtree(c)
          \/ CleanupZipExists(c)

SpecPostLink == InitRoutes /\ [][NextPostLink]_vars
NextPic ==
    \/ ProfilePicRequest
    \/ \E c \in cleaners :
          \/ CleanupDirExists(c)
          \/ CleanupRmtree(c)
          \/ CleanupZipExists(c)

SpecPic == InitRoutes /\ [][NextPic]_vars

NextList == ListPostsRequest

SpecList == InitRoutes /\ [][NextList]_vars

NextPosts ==
    \/ CallDownloadPosts
    \/ CallDiscardsPosts

SpecPosts == InitRoutes /\ [][NextPosts]_vars

NextArchives ==
    \/ ArchiveAll
    \/ ArchivePosts
    \/ SendFile
    \/ \E c \in cleaners :
          \/ CleanupDirExists(c)
          \/ CleanupRmtree(c)
          \/ CleanupZipExists(c)

SpecArchives == InitRoutes /\ [][NextArchives]_vars
NextThumbnail == ProxyThumbnail

SpecThumbnail == InitRoutes /\ [][NextThumbnail]_vars
SpecRoutes == InitRoutes /\ [][NextRoutes]_vars
SpecBackoff == InitBackoff /\ [][NextBackoff]_vars
SpecProxy == InitProxy /\ [][NextBackoff]_vars
SpecSvc == InitSvc /\ [][NextSvc]_vars

----------------------------------------------------------------------------
(* Properties *)

Throttles == {ConnectionException(TextThrottle429), ConnectionException(TextThrottleWait)}

CallsIn(log) == SelectSeq(log, LAMBDA ev : ev.ev = "call")
SleepsIn(log) == SelectSeq(log, LAMBDA ev : ev.ev = "sleep")

(* C3: under any interleaving of get_insta_service calls, at most one      *)
(* InstaService is constructed per thread identity, every call of a thread *)
(* returns that thread's one instance, and threads with different          *)
(* identities never receive the same instance.                             *)
C3_OneInstancePerThread ==
    /\ \A k \in ThreadIds : built[k] <= 1
    /\ \A t \in Threads : \A i \in 1..Len(tgot[t]) :
          tgot[t][i] # NoInstance /\ tgot[t][i] = tgot[t][1]
    /\ \A t1, t2 \in Threads : t1 # t2 =>
          \A i \in 1..Len(tgot[t1]), j \in 1..Len(tgot[t2]) : tgot[t1][i] # tgot[t2][j]

C3_Witness ==
    \E t1, t2 \in Threads :
        t1 # t2 /\ Len(tgot[t1]) >= 2 /\ Len(tgot[t2]) >= 2

(* every attempt the wrapped call could make fails with a throttle signal *)
AllThrottled(script) ==
    /\ Len(script) = settings.PROXY_RETRY_MAX
    /\ \A i \in 1..Len(script) : script[i].exc \in Throttles

(* attempts and sleeps alternate, starting and ending with an attempt *)
SleepBetweenAttempts(log) ==
    /\ \A i \in 1..Len(log) :
          log[i].ev = (IF i % 2 = 1 THEN "call" ELSE "sleep")
    /\ Len(log) > 0 => log[Len(log)].ev = "call"

ThrottledToTheEnd ==
    /\ Len(CallsIn(last.log)) = settings.PROXY_RETRY_MAX
    /\ SleepBetweenAttempts(last.log)
    /\ last.raised
    /\ last.exc = RateLimitError

(* C4 as stated: when every attempt fails with a throttle signal,          *)
(* _with_backoff invokes the wrapped call exactly PROXY_RETRY_MAX times,   *)
(* sleeps between consecutive attempts and not after the last one, and     *)
(* ends by raising RateLimitError.                                         *)
C4_AsStated ==
    (last.op = "with_backoff" /\ AllThrottled(last.script)) => ThrottledToTheEnd

(* C4 amended: the same, for PROXY_RETRY_MAX >= 1 (with no attempt to make *)
(* the loop is skipped and DownloadError is raised).                       *)
C4_ThrottledExhaustsRetries ==
    (last.op = "with_backoff" /\ settings.PROXY_RETRY_MAX >= 1
        /\ AllThrottled(last.script)) => ThrottledToTheEnd

C4_Witness ==
    /\ last.op = "with_backoff"
    /\ settings.PROXY_RETRY_MAX >= 3
    /\ AllThrottled(last.script)
    /\ last.exc = RateLimitError
    /\ Len(SleepsIn(last.log)) >= 2

(* C5: with rotation enabled and a pool of n >= 2 distinct proxies, each   *)
(* retry runs with the next proxy of the pool in round-robin order, so the *)
(* active proxy changes between two consecutive attempts.                  *)
C5_RoundRobin ==
    (settings.PROXY_ROTATION /\ Len(settings.PROXIES) >= 2) =>
        LET calls == CallsIn(last.log)
        IN  \A i \in 1..(Len(calls) - 1) :
               /\ calls[i + 1].proxy = (calls[i].proxy % Len(settings.PROXIES)) + 1
               /\ calls[i + 1].proxy # calls[i].proxy

StrictlyIncreasing(sleeps) ==
    \A i \in 1..(Len(sleeps) - 1) : sleeps[i].dur < sleeps[i + 1].dur

(* C6 as stated: within one _with_backoff call the successive sleep        *)
(* durations are strictly increasing, for every configured base, jitter    *)
(* and maximum attempt count.                                              *)
C6_AsStated == StrictlyIncreasing(SleepsIn(last.log))

(* base > 1 and base * (base - 1) > jitter >= 0, base and jitter in tenths *)
GrowthBeatsJitter ==
    /\ settings.PROXY_BACKOFF_BASE > 10
    /\ settings.PROXY_BACKOFF_JITTER >= 0
    /\ settings.PROXY_BACKOFF_BASE * (settings.PROXY_BACKOFF_BASE - 10)
          > 10 * settings.PROXY_BACKOFF_JITTER

(* C6 amended: the successive sleep durations of one call are strictly     *)
(* increasing whenever base > 1 and base * (base - 1) > jitter, as with    *)
(* the defaults 1.5 and 0.5.                                               *)
C6_IncreasingWhenGrowthBeatsJitter ==
    GrowthBeatsJitter => StrictlyIncreasing(SleepsIn(last.log))

C6_Witness ==
    /\ GrowthBeatsJitter
    /\ settings.PROXY_BACKOFF_JITTER > 0
    /\ Len(SleepsIn(last.log)) >= 2
    /\ \E i \in 1..Len(last.script) : last.script[i].jit > 0

(* the library answered the profile query with its bad-request failure *)
BadRequestAnswered ==
    /\ last.op = "get_profile"
    /\ Len(last.script) >= 1
    /\ last.script[Len(last.script)].exc = QueryReturnedBadRequestException
    /\ Len(CallsIn(last.log)) = Len(last.script)

(* C8: when the library rejects the profile query with its bad-request     *)
(* failure, get_profile fails with ProfileSuspendedError, status 410, for  *)
(* every retry configuration.                                              *)
C8_BadRequestIsSuspended ==
    BadRequestAnswered =>
        /\ last.raised
        /\ last.exc = ProfileSuspendedError(last.username)
        /\ last.exc.status = 410

C8_Witness ==
    /\ BadRequestAnswered
    /\ Len(last.script) >= 2
    /\ last.exc.cls = "ProfileSuspendedError"

DownloadRoutes ==
    {"download_all", "download_posts", "download_post_by_link", "download_profile_pic"}

(* C1: on every download route, a request that has allocated its          *)
(* temporary directory and ends in an error response (typed failure,       *)
(* untyped failure or empty-result 404) has no temporary directory left    *)
(* when the error response is produced.                                    *)
C1_NoTempDirAfterError ==
    (resp.route \in DownloadRoutes /\ resp.status >= 400 /\ resp.temp_dir # NoDir)
        => ~(resp.temp_dir \in dirs) /\ \A f \in files : ~Under(resp.temp_dir, f)

C1_Witness ==
    /\ resp.route = "download_post_by_link"
    /\ resp.status = 500
    /\ resp.exc # NoExc /\ ~resp.exc.typed
    /\ resp.temp_dir # NoDir

ArchiveRoutes == {"download_all", "download_posts"}

(* C2: with auto-cleanup enabled, after a successful download-all or       *)
(* download-posts request the temporary directory and the archive the      *)
(* route produced both exist when the request completes, and both are      *)
(* absent once the deferred cleanup scheduled for the request has run.     *)
C2_DeferredCleanupRemovesBoth ==
    [][/\ (served' = served + 1 /\ resp'.status = 200 /\ resp'.route \in ArchiveRoutes)
            => (resp'.temp_dir \in dirs' /\ resp'.path \in files')
       /\ \A c \in cleaners :
            (c.route \in ArchiveRoutes /\ \A d \in cleaners' : d.id # c.id)
                => (~(c.path \in dirs') /\ ~(c.made \in files'))]_vars

(* the library reported that the subject does not exist *)
ReportedMissing ==
    resp.saw.profile.asked /\ resp.saw.profile.exc = ProfileNotExistsException

(* C7: for every username whose subject the library reports as not         *)
(* existing, get_profile / get_profile_info fails with UserNotFoundError   *)
(* carrying status 404 and GET /profile/{username} responds 404.           *)
C7_MissingUserIs404 ==
    (resp.route = "get_profile" /\ ReportedMissing) =>
        /\ resp.exc.cls = "UserNotFoundError"
        /\ resp.exc.typed
        /\ resp.exc.status = 404
        /\ resp.exc.message = <<"Instagram user not found: '">> \o resp.username \o <<"'">>
        /\ resp.status = 404

C7_Witness ==
    /\ resp.route = "get_profile"
    /\ ReportedMissing
    /\ resp.username = <<"bob">>
    /\ resp.status = 404

(* the library returned the profile and the profile is private *)
ReportedPrivate ==
    resp.saw.profile.asked /\ resp.saw.profile.exc = NoExc /\ resp.saw.is_private

(* C9: for every subject whose profile is private, the posts download and  *)
(* the posts listing fail with PrivateProfile and status 403, and the      *)
(* download route's temporary directory does not survive the response.     *)
C9_PrivateIs403 ==
    (resp.route \in {"download_posts", "list_profile_posts"} /\ ReportedPrivate) =>
        /\ resp.exc.cls = "PrivateProfileError"
        /\ resp.exc.status = 403
        /\ resp.status = 403
        /\ resp.route = "download_posts" =>
              (resp.temp_dir # NoDir /\ ~(resp.temp_dir \in dirs))

C9_Witness ==
    /\ resp.route = "download_posts"
    /\ ReportedPrivate
    /\ resp.status = 403
    /\ resp.temp_dir # NoDir

(* the library signalled that login is required *)
ReportedLoginRequired ==
    \/ resp.route = "download_posts" /\ resp.saw.profile.asked
          /\ resp.saw.profile.exc = NoExc /\ ~resp.saw.is_private
          /\ resp.saw.listing = LoginRequiredException
    \/ resp.route = "download_post_by_link" /\ resp.saw.post.asked
          /\ resp.saw.post.exc = LoginRequiredException

(* C10: when the library signals that login is required while listing a    *)
(* subject's posts or while resolving a post by link, the posts download   *)
(* and the single-post download fail with the typed LoginRequired failure  *)
(* and the route responds with status 401.                                 *)
C10_LoginRequiredIs401 ==
    ReportedLoginRequired =>
        /\ resp.exc.cls = "LoginRequiredError"
        /\ resp.exc.typed
        /\ resp.status = 401

----------------------------------------------------------------------------
(* Error responses *)

(* the failure behind the response is outside the typed taxonomy *)
UntypedFailure ==
    /\ resp.route # "none"
    /\ resp.body = "error"
    /\ resp.exc # NoExc
    /\ ~resp.exc.typed

(* the text of the underlying exception is a value of the JSON body *)
LeaksExceptionText == StrOf(resp.exc) \in {resp.content.error, resp.content.detail}

(* C11: on every route, a failure outside the typed taxonomy raised while  *)
(* handling a request is answered with status 500 and the fixed message    *)
(* 'An unexpected error occurred.', and the response never contains the    *)
(* text of the underlying exception.                                       *)
C11_UntypedIsGeneric500 ==
    UntypedFailure =>
        /\ resp.status = 500
        /\ resp.content.error = UnexpectedErrorMessage
        /\ ~LeaksExceptionText

TypedFailure ==
    /\ resp.route # "none"
    /\ resp.body = "error"
    /\ resp.exc.typed

(* C12: every error response that results from a typed failure raised      *)
(* while handling a route has the envelope {success: false, error,         *)
(* error_code, timestamp}, error_code being the code string assigned to    *)
(* the failure's status.                                                   *)
C12_TypedHasEnvelope ==
    TypedFailure =>
        /\ resp.content.keys = EnvelopeKeys
        /\ resp.content.error = resp.exc.message
        /\ resp.content.error_code = ErrorCodeOf(resp.exc.status)

----------------------------------------------------------------------------
(* download_all of the service *)

(* posts the loop of download_posts hands back: readable ones, up to       *)
(* max_posts                                                               *)
Downloadable(posts, max_posts) ==
    LET n == Cardinality({i \in 1..Len(posts) : posts[i] # "error"})
    IN  IF max_posts # NoMax /\ n > max_posts THEN max_posts ELSE n

(* the profile loads, both ways of fetching the picture fail, the posts    *)
(* download succeeds                                                       *)
PictureFailsPostsSucceed ==
    /\ last.op = "download_all"
    /\ ScriptOk(last.lib.profile)
    /\ last.lib.pic = "fail"
    /\ ~last.lib.is_private
    /\ last.lib.iter_exc = NoExc
    /\ Downloadable(last.lib.posts, last.max_posts) >= 1

(* C13: download_all, when the profile-picture fetch fails (direct fetch   *)
(* and library fallback) while the posts download succeeds, returns        *)
(* normally with profile_pic = false, posts equal to the number of         *)
(* downloaded posts, and exactly one accumulated error string.             *)
C13_PictureFailureIsOneError ==
    PictureFailsPostsSucceed =>
        /\ ~last.raised
        /\ last.value.profile_pic = FALSE
        /\ last.value.posts = Downloadable(last.lib.posts, last.max_posts)
        /\ Len(last.value.errors) = 1

----------------------------------------------------------------------------
(* GET /download/all/{username} *)

(* C14: GET /download/all/{username} for a subject that does not exist     *)
(* ends with a 404 error response, never with a 200 archive response.      *)
C14_DownloadAllMissingIs404 ==
    (resp.route = "download_all" /\ ReportedMissing) =>
        /\ resp.status = 404
        /\ resp.body = "error"

----------------------------------------------------------------------------
(* The zip utilities *)

(* C15: for any two calls of create_temp_download_dir, including calls     *)
(* with the same subject issued concurrently or within the same timestamp  *)
(* tick, the two returned directories are different paths, and each        *)
(* returned directory is empty at the moment it is returned.               *)
C15_TempDirsDistinctAndEmpty ==
    /\ \A i, j \in DOMAIN returned : i # j => returned[i] # returned[j]
    /\ last.op = "create_temp_download_dir" => last.held = {}

(* C16: cleanup_directory removes the directory with all its contents, and *)
(* is a no-op that raises nothing when the path is already absent, so      *)
(* calling it twice on the same path never raises.                         *)
C16_CleanupIsIdempotent ==
    last.op = "cleanup_directory" =>
        /\ ~last.raised
        /\ last.directory \notin dirs
        /\ \A f \in files : f[1] # last.directory \/ Len(f) = 1

C16_Witness ==
    /\ last.op = "cleanup_directory"
    /\ last.again
    /\ last.directory \in {returned[i] : i \in DOMAIN returned}

ArchiveRoundTrips ==
    /\ last.zip_path \in files
    /\ {e.arcname : e \in data[last.zip_path].entries} = {t.arcname : t \in last.tree}
    /\ data[last.zip_path].entries = last.tree
    /\ extractall(data[last.zip_path].entries) = last.tree

C17_AsStated ==
    last.op = "create_zip_archive" => ArchiveRoundTrips

(* C17: for any directory tree, create_zip_archive writing its archive     *)
(* outside the source directory produces one archive whose set of entry    *)
(* names equals the set of paths, relative to the source root, of every    *)
(* regular file under the source directory, each entry holding exactly its *)
(* file's content, so that extracting the archive reproduces the same      *)
(* relative file set and contents.                                         *)
C17_ArchiveOutsideSourceRoundTrips ==
    (last.op = "create_zip_archive" /\ ~last.inside) => ArchiveRoundTrips

C17_Witness ==
    /\ last.op = "create_zip_archive"
    /\ ~last.inside
    /\ \E t, u \in last.tree :
          /\ t.arcname # u.arcname
          /\ t.arcname[Len(t.arcname)] = u.arcname[Len(u.arcname)]
          /\ t.content # u.content

----------------------------------------------------------------------------
(* a post, reel or TV link of Instagram whose shortcode segment is at      *)
(* least MinLength characters of [A-Za-z0-9_-]                             *)
IsPostLink ==
    /\ last.origin \in InstagramOrigins
    /\ last.marker \in PostMarkers
    /\ fullmatch(last.code)

(* a post, reel, TV or story link of Instagram, whatever its last segment *)
IsFullLink ==
    /\ last.origin \in InstagramOrigins
    /\ last.marker \in PostMarkers \cup StoryMarkers

Extracted == last.op = "_extract_shortcode" /\ last.calls >= 1

(* C18: _extract_shortcode returns the shortcode segment of every post,    *)
(* reel or TV link whose shortcode is at least 5 characters of             *)
(* [A-Za-z0-9_-], returns a bare identifier of at least 5 such characters  *)
(* unchanged, and applied to a shortcode it returned it returns the same   *)
(* shortcode.                                                              *)
C18_ExtractionIsIdempotent ==
    Extracted =>
        /\ IsPostLink => ~last.raised /\ last.value = last.code
        /\ fullmatch(last.identifier) => ~last.raised /\ last.value = last.identifier
        /\ last.calls = 2 => ~last.again_raised /\ last.again_value = last.value

(* C19: _extract_shortcode raises DownloadError for every input that is    *)
(* not a full Instagram post, reel, TV or story link and that is shorter   *)
(* than 5 characters or has a character outside [A-Za-z0-9_-]; whenever it *)
(* returns, the result is at least 5 characters, all of [A-Za-z0-9_-].     *)
C19_RejectsWhatIsNoLinkNorShortcode ==
    Extracted =>
        /\ (~IsFullLink /\ ~fullmatch(last.identifier)) => last.raised
        /\ ~last.raised => fullmatch(last.value)

(* the hostname is one of allowed_hosts or a subdomain of one *)
AllowListed(name) ==
    \E host \in allowed_hosts :
        \/ name = host
        \/ /\ Len(name) > Len(host)
           /\ After(name, Len(name) - Len(host)) = <<".">> \o host

(* C20: GET /proxy/thumbnail makes an upstream request only for a URL      *)
(* whose scheme is http or https and whose hostname is one of the          *)
(* allow-listed domains or a subdomain of one; for every other URL it      *)
(* answers 400 and makes no upstream request.                              *)
C20_ThumbnailFetchesAllowListOnly ==
    (resp.route = "proxy_thumbnail"
        /\ ~(resp.scheme \in HttpSchemes /\ AllowListed(resp.hostname)))
    => resp.status = 400 /\ ~resp.sent

----------------------------------------------------------------------------
(* the service returned a result to GET /download/post *)
PostResult ==
    /\ resp.route = "download_post_by_link"
    /\ resp.exc = NoExc
    /\ resp.saw.returned

MediaCount == Cardinality(resp.saw.media_files)

----------------------------------------------------------------------------
(* the service's download_profile_pic got the profile and went on to fetch *)
PicFetched ==
    /\ resp.route = "download_profile_pic"
    /\ resp.saw # NothingSeen
    /\ resp.saw.fetched

(* C22: download_profile_pic makes the direct fetch of the picture URL      *)
(* first and calls the library's picture download only when the direct      *)
(* fetch left no file; when neither leaves a file it returns None without   *)
(* raising, and GET /download/profile-pic/{username} answers 404, not 500.  *)
C22_FallbackOnlyAfterDirectThen404 ==
    PicFetched =>
        /\ resp.saw.pic # "nourl" => resp.saw.calls[1] = "requests.get"
        /\ (\E i \in DOMAIN resp.saw.calls : resp.saw.calls[i] = "download_profilepic")
              => resp.saw.pic # "direct"
        /\ resp.saw.pic = "direct" => resp.saw.calls = <<"requests.get">>
        /\ resp.saw.pic \in {"nofile", "fail", "nourl"}
              => resp.saw.value = NoPath /\ resp.exc = NoExc /\ resp.status = 404
        /\ resp.status # 500

(* the direct fetch and the library's download both raised *)
C22_Witness ==
    /\ PicFetched
    /\ resp.saw.pic = "fail"
    /\ resp.saw.calls = <<"requests.get", "download_profilepic">>
    /\ resp.status = 404

----------------------------------------------------------------------------
(* a thread's instance, once stored, stays the thread's instance *)
InstanceKept ==
    \A k \in ThreadIds : instances[k] # NoInstance => instances'[k] = instances[k]

(* C23: when an error occurs while a thread's InstaService is constructed,  *)
(* get_insta_service still yields an instance for that thread and the call  *)
(* does not fail; and an instance that is ready never goes back to          *)
(* uninitialized.                                                           *)
C23_ConstructionErrorIsNotFatal ==
    /\ [](\A t \in Threads : tpc[t] # "failed")
    /\ [][InstanceKept]_vars

----------------------------------------------------------------------------
(* the listing of posts                                                    *)

Listed == resp.route = "list_profile_posts" /\ resp.status = 200

(* the profile was found, is public and its posts could be iterated *)
Listable ==
    /\ resp.route = "list_profile_posts"
    /\ resp.saw.profile.asked
    /\ resp.saw.profile.exc = NoExc
    /\ ~resp.saw.is_private
    /\ resp.saw.listing = NoExc

(* C24: a listing returns at most max_posts posts; they are, in order, a    *)
(* subsequence of the posts the profile yields; a post whose metadata       *)
(* cannot be read is left out and the request still succeeds; and           *)
(* returned_posts is the length of the returned list.                       *)
C24_ListingIsBoundedOrderedAndCounted ==
    /\ Listed =>
         LET v == resp.saw.value
         IN  /\ Len(v.posts) <= resp.saw.max_posts
             /\ \A k \in DOMAIN v.posts : v.posts[k] \in DOMAIN resp.saw.upstream
             /\ \A j, k \in DOMAIN v.posts : j < k => v.posts[j] < v.posts[k]
             /\ \A k \in DOMAIN v.posts : resp.saw.upstream[v.posts[k]] # "error"
             /\ v.returned_posts = Len(v.posts)
    /\ Listable => Listed

(* a profile of three posts, the second unreadable, listed with room for    *)
(* two: the first and the third are returned                                *)
C24_Witness ==
    /\ Listed
    /\ resp.saw.upstream = <<"ok", "error", "ok">>
    /\ resp.saw.max_posts = 2
    /\ resp.saw.value.posts = <<1, 3>>
    /\ resp.saw.value.returned_posts = 2

----------------------------------------------------------------------------
(* the posts download of the service                                       *)

PostsDownloaded == last.op = "download_posts" /\ ~last.raised

(* C25: download_posts returns the metadata of exactly the posts whose      *)
(* media download succeeded: a post whose media download failed is not in   *)
(* the list, the posts after it are still processed, and the list never     *)
(* has more than max_posts entries.                                         *)
C25_ReturnsExactlyTheDownloaded ==
    PostsDownloaded =>
        /\ \A k \in DOMAIN last.value : last.lib.posts[last.value[k]] = "ok"
        /\ \A i \in DOMAIN last.lib.posts :
              last.lib.posts[i] = "ok" =>
                 \/ \E k \in DOMAIN last.value : last.value[k] = i
                 \/ last.max_posts # NoMax /\ Len(last.value) = last.max_posts
        /\ last.max_posts # NoMax => Len(last.value) <= last.max_posts

----------------------------------------------------------------------------
(* archives of requests that overlap                                       *)

(* the entries of the archive the response r sends, were it sent now *)
Serves(r) == IF r.path \in DOMAIN data THEN data[r.path].entries ELSE {}

(* C26: among download-all and download-posts requests that succeed, in any *)
(* interleaving and also for one username, no two requests in flight have   *)
(* written the same archive path, and the archive a response sends holds    *)
(* only files of the temporary directory of its own request.                *)
C26_ArchivesAreNotShared ==
    /\ \A r1, r2 \in inflight : r1.id # r2.id => r1.path # r2.path
    /\ \A r \in inflight : \A e \in Serves(r) : Under(r.temp_dir, e.source)

====
